---- MODULE Spec2Model ----
(***************************************************************************)
(* Model of the PodRightSizing reconciliation controller                   *)
(* (internal/controller/podrightsizing_controller.go, second listing of    *)
(* src/unnamed/part_003, lines 559-1506).                                  *)
(*                                                                         *)
(* One policy object (one reconcile key) is reconciled by passes that the  *)
(* runtime serialises.  A pass is split into one action per call to the    *)
(* cluster API or to the metrics provider, so that the environment (the    *)
(* clock, a user editing the policy object, pods stopping) can interleave  *)
(* between the calls exactly where it can in the program.                  *)
(***************************************************************************)
EXTENDS Integers, Sequences, FiniteSets, TLC

VARIABLES
    spec,        \* the policy's Spec (fixed for a behaviour)
    policy,      \* the policy object stored by the API server
    running,     \* names of the pods that are in phase Running
    workloads,   \* workload key -> containers' ResourceRequirements (API server)
    now,         \* the wall clock, in minutes
    pc,          \* position of the controller inside Reconcile
    prs,         \* the pass's in-memory copy of the policy object; stale: its
                 \* resourceVersion is no longer the stored one
    loc,         \* the other locals of the running pass
    result,      \* what the last finished pass returned (ctrl.Result, error)
    obs,         \* observation log of the running pass (what it did to the world)
    hist,        \* observation log across passes
    app,         \* the applications of one template to one workload, in a row
    ev,          \* a watch event and the reconcile requests it was mapped to
    eng,         \* a call of the recommendation engine on the metrics of a workload
    calc         \* a calculation of the engine on the samples of one usage history

\* the variables of the studies of single functions, which a pass leaves alone
aside == <<app, ev, eng, calc>>

vars == <<spec, policy, running, workloads, now, pc, prs, loc, result, obs, hist, aside>>

----------------------------------------------------------------------------
(* Bounds of the model *)

MaxTicks == 1      \* the clock advances at most this many hours
MaxPasses == 2     \* reconcile passes per behaviour
MaxApplications == 2   \* applications of a template to a workload, in a row
MaxHours == 25      \* the clock of the scheduling study runs this many hours

----------------------------------------------------------------------------
(* Durations, in minutes *)

Hour == 60
FiveMinutes == 5
NoTime == -1        \* a nil *metav1.Time

\* time.ParseDuration on the AnalysisWindow strings the model uses.  Go's
\* parser knows the units ns..h only: "7d" and "" are errors.
ParseDuration(s) ==
    CASE s = "30m"  -> [ok |-> TRUE,  d |-> Hour \div 2]
      [] s = "1h"   -> [ok |-> TRUE,  d |-> Hour]
      [] s = "2h"   -> [ok |-> TRUE,  d |-> 2 * Hour]
      [] s = "24h"  -> [ok |-> TRUE,  d |-> 24 * Hour]
      [] s = "48h"  -> [ok |-> TRUE,  d |-> 48 * Hour]
      [] s = "168h" -> [ok |-> TRUE,  d |-> 168 * Hour]
      [] OTHER      -> [ok |-> FALSE, d |-> 0]

----------------------------------------------------------------------------
(* Phases and update strategies (api/v1alpha1) *)

PhaseInitializing == "Initializing"
PhaseAnalyzing == "Analyzing"
PhaseRecommending == "Recommending"
PhaseUpdating == "Updating"
PhaseCompleted == "Completed"
PhaseError == "Error"

UpdateStrategyImmediate == "immediate"
UpdateStrategyGradual == "gradual"
UpdateStrategyManual == "manual"

WorkloadTypeDeployment == "Deployment"
WorkloadTypeStatefulSet == "StatefulSet"
WorkloadTypeDaemonSet == "DaemonSet"

----------------------------------------------------------------------------
(* The cluster the model runs against *)

\* corev1.ResourceRequirements: Requests and Limits, each a map from the
\* resource name to a quantity (an integer number of units)
Res(cr, mr, cl, ml) ==
    [Requests |-> [cpu |-> cr, memory |-> mr], Limits |-> [cpu |-> cl, memory |-> ml]]

Original == Res(3, 3, 3, 3)     \* what every container requests at the start
Reduced == Res(1, 1, 2, 2)      \* a recommendation that differs from it

Namespaces == {"prod", "staging"}
NamespaceLabels == [n \in Namespaces |-> {"team=a"}]

PodNames == {"web-1", "db-0", "agent-x"}

\* the fields of corev1.Pod the controller reads
Pod(name) ==
    CASE name = "web-1" ->
            [Name |-> "web-1", Namespace |-> "prod", Labels |-> {"tier=backend"},
             OwnerReferences |-> <<[Kind |-> "ReplicaSet", Name |-> "web-7c9"]>>,
             Containers |-> <<Original, Original>>]
      [] name = "db-0" ->
            [Name |-> "db-0", Namespace |-> "prod", Labels |-> {"tier=backend"},
             OwnerReferences |-> <<[Kind |-> "StatefulSet", Name |-> "db"]>>,
             Containers |-> <<Original>>]
      [] OTHER ->
            [Name |-> "agent-x", Namespace |-> "staging", Labels |-> {"tier=system"},
             OwnerReferences |-> <<[Kind |-> "DaemonSet", Name |-> "agent"]>>,
             Containers |-> <<Original>>]

\* the ReplicaSets of the cluster and their owner references
ReplicaSetOwners(ns, name) ==
    IF ns = "prod" /\ name = "web-7c9"
    THEN <<[Kind |-> "Deployment", Name |-> "web"]>>
    ELSE <<>>

\* fmt.Sprintf("%s/%s/%s", ns, type, name): the key as the sequence of its
\* pieces, "/" being the separator token
WorkloadKey(ns, type, name) == <<ns, "/", type, "/", name>>

WorkloadKeys ==
    {WorkloadKey("prod", WorkloadTypeDeployment, "web"),
     WorkloadKey("prod", WorkloadTypeStatefulSet, "db"),
     WorkloadKey("staging", WorkloadTypeDaemonSet, "agent")}

InitialWorkloads ==
    [k \in WorkloadKeys |->
        IF k[5] = "web" THEN <<Original, Original>> ELSE <<Original>>]

----------------------------------------------------------------------------
(* The policy object *)

\* Target of the policy.  A selector is "nil" (unset), "bad" (malformed: a
\* match expression LabelSelectorAsSelector rejects) or the label it matches.
TargetProdNamespace ==
    [Namespace |-> "prod", NamespaceSelector |-> "nil", LabelSelector |-> "tier=backend",
     ExcludeNamespaces |-> {}, IncludeWorkloadTypes |-> {}]
TargetBySelector ==
    [Namespace |-> "", NamespaceSelector |-> "team=a", LabelSelector |-> "nil",
     ExcludeNamespaces |-> {"staging"}, IncludeWorkloadTypes |-> {}]
TargetAllNamespaces ==
    [Namespace |-> "", NamespaceSelector |-> "nil", LabelSelector |-> "nil",
     ExcludeNamespaces |-> {"staging"}, IncludeWorkloadTypes |-> {WorkloadTypeDeployment, WorkloadTypeDaemonSet}]
TargetBadLabelSelector ==
    [Namespace |-> "prod", NamespaceSelector |-> "nil", LabelSelector |-> "bad",
     ExcludeNamespaces |-> {}, IncludeWorkloadTypes |-> {}]
TargetBadNamespaceSelector ==
    [Namespace |-> "", NamespaceSelector |-> "bad", LabelSelector |-> "nil",
     ExcludeNamespaces |-> {}, IncludeWorkloadTypes |-> {}]

Policy(target, window, dryRun, strategy) ==
    [Target |-> target, AnalysisWindow |-> window, DryRun |-> dryRun, Strategy |-> strategy]

\* the policies the model is run with
PolicySpecs ==
    {Policy(TargetProdNamespace, "2h", TRUE, UpdateStrategyGradual),
     Policy(TargetProdNamespace, "2h", FALSE, UpdateStrategyImmediate),
     Policy(TargetProdNamespace, "2h", FALSE, UpdateStrategyManual),
     Policy(TargetBySelector, "48h", FALSE, UpdateStrategyGradual),
     Policy(TargetAllNamespaces, "7d", TRUE, UpdateStrategyImmediate),
     Policy(TargetBadLabelSelector, "2h", FALSE, UpdateStrategyImmediate),
     Policy(TargetBadNamespaceSelector, "2h", TRUE, UpdateStrategyGradual)}

\* PodRightSizingStatus of a freshly created object: every field has its
\* zero value, Phase is the empty string.  recsOf and timeOf are
\* not fields of the program: they record which pass (by number) computed
\* Recommendations and LastAnalysisTime, and travel with them.
EmptyStatus ==
    [Phase |-> "", Message |-> "", LastAnalysisTime |-> NoTime,
     LastUpdateTime |-> NoTime, TargetedPods |-> 0, UpdatedPods |-> 0,
     Recommendations |-> <<>>, recsOf |-> 0, timeOf |-> 0]

----------------------------------------------------------------------------
(* Scheduling *)

\* shouldRunAnalysis, lines 730-741: the interval between two analyses
analysisInterval ==
    LET parsed == ParseDuration(spec.AnalysisWindow) IN
    IF spec.AnalysisWindow # "" /\ parsed.ok
    THEN IF parsed.d < 24 * Hour THEN Hour ELSE parsed.d \div 24
    ELSE 24 * Hour

\* shouldRunAnalysis without the comparison against the interval
shouldRunAnalysisAlways(p, t) == TRUE

\* shouldRunAnalysis with a policy in phase Error never due again
shouldRunAnalysisUnlessError(p, t) ==
    IF p.Status.Phase = "Error" THEN FALSE
    ELSE IF p.Status.LastAnalysisTime = NoTime THEN TRUE
    ELSE t - p.Status.LastAnalysisTime >= analysisInterval

\* shouldRunAnalysis: is a pass over p due at time t
shouldRunAnalysis(p, t) ==
    IF p.Status.LastAnalysisTime = NoTime THEN TRUE
    ELSE t - p.Status.LastAnalysisTime >= analysisInterval

\* requeueAfter: the ctrl.Result of a pass that ends without error
requeueAfter ==
    LET parsed == ParseDuration(spec.AnalysisWindow)
        interval ==
            IF spec.AnalysisWindow # "" /\ parsed.ok /\ parsed.d >= 24 * Hour
            THEN 24 * Hour ELSE Hour
    IN  [RequeueAfter |-> interval, err |-> FALSE]

----------------------------------------------------------------------------
(* Target discovery *)

SeqToSet(s) == {s[i] : i \in DOMAIN s}

\* isNamespaceExcluded
isNamespaceExcluded(namespace, excludeList) == namespace \in excludeList

\* getWorkloadType: the first owner reference of a known kind decides
RECURSIVE getWorkloadTypeFrom(_, _)
getWorkloadTypeFrom(owners, i) ==
    IF i > Len(owners) THEN "Pod"
    ELSE CASE owners[i].Kind = "ReplicaSet"  -> WorkloadTypeDeployment
           [] owners[i].Kind = "StatefulSet" -> WorkloadTypeStatefulSet
           [] owners[i].Kind = "DaemonSet"   -> WorkloadTypeDaemonSet
           [] owners[i].Kind = "Job"         -> "Job"
           [] owners[i].Kind = "CronJob"     -> "CronJob"
           [] OTHER -> getWorkloadTypeFrom(owners, i + 1)

getWorkloadType(pod) == getWorkloadTypeFrom(pod.OwnerReferences, 1)

\* shouldIncludePod without the check for owner references
shouldIncludePodStandalone(pod, run) ==
    /\ pod.Name \in run
    /\ \/ spec.Target.IncludeWorkloadTypes = {}
       \/ getWorkloadType(pod) \in spec.Target.IncludeWorkloadTypes
    /\ \E i \in DOMAIN pod.Containers :
          \/ \E r \in DOMAIN pod.Containers[i].Requests : TRUE
          \/ \E r \in DOMAIN pod.Containers[i].Limits : TRUE

\* shouldIncludePod (the pod is Running iff its name is in run)
shouldIncludePod(pod, run) ==
    /\ pod.Name \in run
    /\ Len(pod.OwnerReferences) # 0
    /\ \/ spec.Target.IncludeWorkloadTypes = {}
       \/ getWorkloadType(pod) \in spec.Target.IncludeWorkloadTypes
    /\ \E i \in DOMAIN pod.Containers :
          \/ \E r \in DOMAIN pod.Containers[i].Requests : TRUE
          \/ \E r \in DOMAIN pod.Containers[i].Limits : TRUE

\* the label selector applied by a pod list call
MatchesSelector(sel, labels) == sel = "nil" \/ sel \in labels

\* discoverTargetPods without the error returns for a malformed selector
discoverTargetPodsUnchecked(run, failNs, failPods) ==
    LET t == spec.Target
        failed == [err |-> TRUE, pods |-> {}, lists |-> 0]
    IN
    IF t.NamespaceSelector # "nil" /\ failNs THEN failed
    ELSE
      LET namespaces ==
              IF t.NamespaceSelector # "nil"
              THEN {n \in Namespaces : MatchesSelector(t.NamespaceSelector, NamespaceLabels[n])}
              ELSE IF t.Namespace # "" THEN {t.Namespace}
              ELSE {""}
          listed == {n \in namespaces : ~isNamespaceExcluded(n, t.ExcludeNamespaces)}
          inNs(n) == {p \in PodNames :
                        /\ n = "" \/ Pod(p).Namespace = n
                        /\ MatchesSelector(t.LabelSelector, Pod(p).Labels)}
      IN  IF listed # {} /\ failPods
          THEN [err |-> TRUE, pods |-> {}, lists |-> 1]
          ELSE [err |-> FALSE,
                pods |-> {p \in UNION {inNs(n) : n \in listed} : shouldIncludePod(Pod(p), run)},
                lists |-> Cardinality(listed)]

\* discoverTargetPods: [err, pods (a set of names), lists (pod list calls made)].
\* failNs / failPods: the namespace list call / a pod list call fails.
discoverTargetPods(run, failNs, failPods) ==
    LET t == spec.Target
        failed == [err |-> TRUE, pods |-> {}, lists |-> 0]
    IN
    IF t.LabelSelector = "bad" THEN failed
    ELSE IF t.NamespaceSelector = "bad" THEN failed
    ELSE IF t.NamespaceSelector # "nil" /\ failNs THEN failed
    ELSE
      LET namespaces ==
              IF t.NamespaceSelector # "nil"
              THEN {n \in Namespaces : MatchesSelector(t.NamespaceSelector, NamespaceLabels[n])}
              ELSE IF t.Namespace # "" THEN {t.Namespace}
              ELSE {""}
          listed == {n \in namespaces : ~isNamespaceExcluded(n, t.ExcludeNamespaces)}
          inNs(n) == {p \in PodNames :
                        /\ n = "" \/ Pod(p).Namespace = n
                        /\ MatchesSelector(t.LabelSelector, Pod(p).Labels)}
      IN  IF listed # {} /\ failPods
          THEN [err |-> TRUE, pods |-> {}, lists |-> 1]
          ELSE [err |-> FALSE,
                pods |-> {p \in UNION {inNs(n) : n \in listed} : shouldIncludePod(Pod(p), run)},
                lists |-> Cardinality(listed)]

\* getWorkloadName: one hop, and a second one through a ReplicaSet
RECURSIVE getWorkloadNameFrom(_, _)
getWorkloadNameFrom(pod, i) ==
    IF i > Len(pod.OwnerReferences) THEN pod.Name
    ELSE LET owner == pod.OwnerReferences[i] IN
         IF owner.Kind = "ReplicaSet"
         THEN LET rsOwners == ReplicaSetOwners(pod.Namespace, owner.Name)
                  deps == {j \in DOMAIN rsOwners : rsOwners[j].Kind = "Deployment"}
              IN  IF deps # {}
                  THEN rsOwners[CHOOSE j \in deps : \A k \in deps : j <= k].Name
                  ELSE getWorkloadNameFrom(pod, i + 1)
         ELSE owner.Name

getWorkloadName(pod) == getWorkloadNameFrom(pod, 1)

\* groupPodsByWorkload: key -> the set of the group's pods
PodKey(p) == WorkloadKey(Pod(p).Namespace, getWorkloadType(Pod(p)), getWorkloadName(Pod(p)))

groupPodsByWorkload(pods) ==
    [k \in {PodKey(p) : p \in pods} |-> {p \in pods : PodKey(p) = k}]

\* splitWorkloadKey: strings.SplitN(key, "/", 3), each part the sequence of its pieces
splitWorkloadKey(key) ==
    LET seps == {i \in DOMAIN key : key[i] = "/"}
        first(S) == CHOOSE i \in S : \A j \in S : i <= j
    IN  IF seps = {} THEN <<key>>
        ELSE LET a == first(seps)
                 rest == {i \in seps : i > a}
             IN  IF rest = {} THEN <<SubSeq(key, 1, a - 1), SubSeq(key, a + 1, Len(key))>>
                 ELSE LET b == first(rest)
                      IN  <<SubSeq(key, 1, a - 1), SubSeq(key, a + 1, b - 1),
                            SubSeq(key, b + 1, Len(key))>>

----------------------------------------------------------------------------
(* Recommendations *)

\* getCurrentResources: the sum of the containers' requests and limits
RECURSIVE SumOver(_, _, _, _)
SumOver(containers, list, name, i) ==
    IF i > Len(containers) THEN 0
    ELSE (IF name \in DOMAIN containers[i][list] THEN containers[i][list][name] ELSE 0)
         + SumOver(containers, list, name, i + 1)

getCurrentResources(pod) ==
    LET names(list) == UNION {DOMAIN pod.Containers[i][list] \cap {"cpu", "memory"} :
                                i \in DOMAIN pod.Containers}
    IN  [Requests |-> [n \in names("Requests") |-> SumOver(pod.Containers, "Requests", n, 1)],
         Limits   |-> [n \in names("Limits")   |-> SumOver(pod.Containers, "Limits", n, 1)]]

\* What one call of generateWorkloadRecommendations can return for a group:
\* the metrics provider fails ("metricsError"), it knows no pod of the
\* workload ("noMetrics"), or the engine yields, for the group's pod, a
\* recommendation or nothing ("none").
Answers == {"metricsError", "noMetrics", "none", "Reduced"}

RecOf(answer) == IF answer = "Reduced" THEN Reduced ELSE Original

generateWorkloadRecommendations(workloadKey, pods, answer) ==
    LET parts == splitWorkloadKey(workloadKey) IN
    IF Len(parts) # 3 THEN [err |-> TRUE, recs |-> <<>>, called |-> FALSE]
    ELSE IF answer \in {"metricsError", "noMetrics"}
         THEN [err |-> TRUE, recs |-> <<>>, called |-> TRUE]
    ELSE IF answer = "none" THEN [err |-> FALSE, recs |-> <<>>, called |-> TRUE]
    ELSE LET p == CHOOSE x \in pods : TRUE
         IN  [err |-> FALSE, called |-> TRUE,
              recs |-> <<[PodReference |->
                             [Name |-> p, Namespace |-> parts[1][1],
                              WorkloadType |-> parts[2][1], WorkloadName |-> parts[3][1]],
                          CurrentResources |-> getCurrentResources(Pod(p)),
                          RecommendedResources |-> RecOf(answer)]>>]

RecKey(rec) ==
    WorkloadKey(rec.PodReference.Namespace, rec.PodReference.WorkloadType,
                rec.PodReference.WorkloadName)

\* calculateAverageRecommendation with the last recommendation as the template
calculateAverageRecommendationOfLast(recommendations) ==
    IF Len(recommendations) = 0 THEN [Requests |-> <<>>, Limits |-> <<>>]
    ELSE recommendations[Len(recommendations)].RecommendedResources

\* calculateAverageRecommendation: the first recommendation is the template
calculateAverageRecommendation(recommendations) ==
    IF Len(recommendations) = 0 THEN [Requests |-> <<>>, Limits |-> <<>>]
    ELSE recommendations[1].RecommendedResources

\* resourcesEqual with the limits not compared
resourcesEqualRequestsOnly(a, b) ==
    /\ Cardinality(DOMAIN a.Requests) = Cardinality(DOMAIN b.Requests)
    /\ \A r \in DOMAIN a.Requests : r \in DOMAIN b.Requests /\ a.Requests[r] = b.Requests[r]

\* resourcesEqual on two ResourceRequirements
resourcesEqual(a, b) ==
    /\ Cardinality(DOMAIN a.Requests) = Cardinality(DOMAIN b.Requests)
    /\ \A r \in DOMAIN a.Requests : r \in DOMAIN b.Requests /\ a.Requests[r] = b.Requests[r]
    /\ Cardinality(DOMAIN a.Limits) = Cardinality(DOMAIN b.Limits)
    /\ \A r \in DOMAIN a.Limits : r \in DOMAIN b.Limits /\ a.Limits[r] = b.Limits[r]

\* updateContainerResources: [containers after, updated]
updateContainerResources(containers, resources) ==
    [containers |-> [i \in DOMAIN containers |->
                        IF resourcesEqual(containers[i], resources)
                        THEN containers[i] ELSE resources],
     updated |-> \E i \in DOMAIN containers : ~resourcesEqual(containers[i], resources)]

\* updateDeployment / updateStatefulSet / updateDaemonSet on the workload at
\* key: [n, err, got, wrote, containers].  getFails / updateFails: the Get /
\* the Update call is refused by the API server.
updateWorkload(key, resources, getFails, updateFails) ==
    IF getFails \/ key \notin DOMAIN workloads
    THEN [n |-> 0, err |-> TRUE, got |-> FALSE, wrote |-> FALSE, containers |-> <<>>]
    ELSE LET u == updateContainerResources(workloads[key], resources) IN
         IF ~u.updated
         THEN [n |-> 0, err |-> FALSE, got |-> TRUE, wrote |-> FALSE, containers |-> workloads[key]]
         ELSE IF updateFails
         THEN [n |-> 0, err |-> TRUE, got |-> TRUE, wrote |-> FALSE, containers |-> workloads[key]]
         ELSE [n |-> 1, err |-> FALSE, got |-> TRUE, wrote |-> TRUE, containers |-> u.containers]

\* applyWorkloadRecommendations without the early return for the manual strategy
applyWorkloadRecommendationsAnyStrategy(workloadKey, recommendations, getFails, updateFails) ==
    LET skip == [n |-> 0, err |-> FALSE, got |-> FALSE, wrote |-> FALSE, containers |-> <<>>]
        parts == splitWorkloadKey(workloadKey)
    IN
    IF Len(recommendations) = 0 THEN skip
    ELSE IF Len(parts) # 3 THEN [skip EXCEPT !.err = TRUE]
    ELSE IF parts[2][1] \in {WorkloadTypeDeployment, WorkloadTypeStatefulSet, WorkloadTypeDaemonSet}
         THEN updateWorkload(workloadKey, calculateAverageRecommendation(recommendations),
                             getFails, updateFails)
         ELSE skip

\* applyWorkloadRecommendations with the gradual strategy leaving the update
\* to a later, staged step
applyWorkloadRecommendationsStaged(workloadKey, recommendations, getFails, updateFails) ==
    LET skip == [n |-> 0, err |-> FALSE, got |-> FALSE, wrote |-> FALSE, containers |-> <<>>]
        parts == splitWorkloadKey(workloadKey)
    IN
    IF spec.Strategy \in {UpdateStrategyManual, UpdateStrategyGradual} THEN skip
    ELSE IF Len(recommendations) = 0 THEN skip
    ELSE IF Len(parts) # 3 THEN [skip EXCEPT !.err = TRUE]
    ELSE IF parts[2][1] \in {WorkloadTypeDeployment, WorkloadTypeStatefulSet, WorkloadTypeDaemonSet}
         THEN updateWorkload(workloadKey, calculateAverageRecommendation(recommendations),
                             getFails, updateFails)
         ELSE skip

\* applyWorkloadRecommendations with a workload type that is not supported
\* reported as an error
applyWorkloadRecommendationsOfKnownTypes(workloadKey, recommendations, getFails, updateFails) ==
    LET skip == [n |-> 0, err |-> FALSE, got |-> FALSE, wrote |-> FALSE, containers |-> <<>>]
        parts == splitWorkloadKey(workloadKey)
    IN
    IF spec.Strategy = UpdateStrategyManual THEN skip
    ELSE IF Len(recommendations) = 0 THEN skip
    ELSE IF Len(parts) # 3 THEN [skip EXCEPT !.err = TRUE]
    ELSE IF parts[2][1] \in {WorkloadTypeDeployment, WorkloadTypeStatefulSet, WorkloadTypeDaemonSet}
         THEN updateWorkload(workloadKey, calculateAverageRecommendation(recommendations),
                             getFails, updateFails)
         ELSE [skip EXCEPT !.err = TRUE]

\* applyWorkloadRecommendations
applyWorkloadRecommendations(workloadKey, recommendations, getFails, updateFails) ==
    LET skip == [n |-> 0, err |-> FALSE, got |-> FALSE, wrote |-> FALSE, containers |-> <<>>]
        parts == splitWorkloadKey(workloadKey)
    IN
    IF spec.Strategy = UpdateStrategyManual THEN skip
    ELSE IF Len(recommendations) = 0 THEN skip
    ELSE IF Len(parts) # 3 THEN [skip EXCEPT !.err = TRUE]
    ELSE IF parts[2][1] \in {WorkloadTypeDeployment, WorkloadTypeStatefulSet, WorkloadTypeDaemonSet}
         THEN updateWorkload(workloadKey, calculateAverageRecommendation(recommendations),
                             getFails, updateFails)
         ELSE skip

----------------------------------------------------------------------------
(* Status writes *)

\* updatePhase with a status write that leaves the stored LastAnalysisTime alone
updatePhaseKeepingAnalysisTime(p, phase, message) ==
    LET q == [p EXCEPT !.Status.Phase = phase, !.Status.Message = message] IN
    IF policy.exists /\ ~q.stale
    THEN [ok |-> TRUE,
          prs |-> q,
          policy |-> [policy EXCEPT
                         !.Status = [q.Status EXCEPT
                                        !.LastAnalysisTime = policy.Status.LastAnalysisTime,
                                        !.timeOf = policy.Status.timeOf]]]
    ELSE [ok |-> FALSE, prs |-> q, policy |-> policy]

\* updatePhase: set phase and message on the in-memory object p and send its
\* whole Status with r.Status().Update, which the API server accepts only if
\* p carries the stored resourceVersion (and then p takes the new one, so
\* that it stays current): [ok, prs, policy]
updatePhase(p, phase, message) ==
    LET q == [p EXCEPT !.Status.Phase = phase, !.Status.Message = message] IN
    IF policy.exists /\ ~q.stale
    THEN [ok |-> TRUE,
          prs |-> q,
          policy |-> [policy EXCEPT !.Status = q.Status]]
    ELSE [ok |-> FALSE, prs |-> q, policy |-> policy]

----------------------------------------------------------------------------
(* State *)

NoResult == [RequeueAfter |-> 0, err |-> FALSE]

NoApplications == [key |-> <<>>, template |-> Original, applied |-> <<>>]

NoEngineCall ==
    [pods |-> <<>>, analyses |-> <<>>, recommendations |-> <<>>,
     returned |-> FALSE, err |-> FALSE]

NoCalculation == [sample |-> <<>>]

NoEvent ==
    [event |-> [kind |-> "", type |-> "", name |-> "", key |-> <<>>, old |-> <<>>, new |-> <<>>],
     delivered |-> FALSE, enqueued |-> {}, listFails |-> FALSE, nsGetFails |-> FALSE]

NoLocals ==
    [targetPods |-> {}, groups |-> {}, allRecommendations |-> <<>>,
     applyLeft |-> {}, updatedCount |-> 0]

\* what a pass has done so far
NewObs(t, status) ==
    [start |-> t, status0 |-> status, found |-> TRUE, due |-> FALSE,
     phases |-> <<>>, rejected |-> <<>>, podLists |-> 0, metricsCalls |-> 0,
     discoveryFailed |-> FALSE, okGroups |-> {}, failedGroups |-> {}, produced |-> {},
     gets |-> {}, writes |-> {}, applyFailed |-> {}]

InitOf(policies) ==
    /\ spec \in policies
    /\ policy = [exists |-> TRUE, Status |-> EmptyStatus]
    /\ running = PodNames
    /\ workloads = InitialWorkloads
    /\ now = 0
    /\ pc = "idle"
    /\ prs = [stale |-> FALSE, Status |-> EmptyStatus]
    /\ loc = NoLocals
    /\ result = NoResult
    /\ obs = NewObs(0, EmptyStatus)
    /\ hist = [passes |-> 0, prevStart |-> NoTime, prevErr |-> FALSE,
               completed |-> [pass |-> 0, recs |-> <<>>, targeted |-> 0, updated |-> 0]]

Init ==
    /\ InitOf(PolicySpecs)
    /\ app = NoApplications
    /\ ev = NoEvent
    /\ eng = NoEngineCall
    /\ calc = NoCalculation

cluster == <<spec, running, workloads, now>>

\* the pass returns res
Return(res) ==
    /\ pc' = "idle"
    /\ result' = res
    /\ hist' = [hist EXCEPT !.passes = @ + 1]

\* a status write of the running pass: its effect on policy, prs and obs
Write(w, phase) ==
    /\ policy' = w.policy
    /\ prs' = w.prs
    /\ obs' = IF w.ok THEN [obs EXCEPT !.phases = Append(@, phase)]
                      ELSE [obs EXCEPT !.rejected = Append(@, phase)]

----------------------------------------------------------------------------
(* Reconcile, one action per call to the outside *)

\* Fetch with a missing object reported as an error of the pass
FetchFailingOnNotFound ==
    /\ pc = "idle"
    /\ UNCHANGED aside
    /\ hist.passes < MaxPasses
    /\ loc' = NoLocals
    /\ UNCHANGED <<cluster, policy>>
    /\ hist' = [hist EXCEPT !.prevStart = IF hist.passes > 0 THEN obs.start ELSE NoTime,
                            !.prevErr = result.err,
                            !.passes = IF policy.exists /\ shouldRunAnalysis(policy, now)
                                       THEN @ ELSE @ + 1]
    /\ prs' = IF policy.exists THEN [stale |-> FALSE, Status |-> policy.Status] ELSE prs
    /\ obs' = [NewObs(now, policy.Status) EXCEPT
                  !.found = policy.exists,
                  !.due = policy.exists /\ shouldRunAnalysis(policy, now)]
    /\ pc' = IF policy.exists /\ shouldRunAnalysis(policy, now) THEN "analyzing" ELSE "idle"
    /\ result' = IF ~policy.exists THEN [RequeueAfter |-> 0, err |-> TRUE]
                 ELSE IF shouldRunAnalysis(policy, now) THEN NoResult ELSE requeueAfter

\* lines 616-631: Get the object, decide whether analysis is due
Fetch ==
    /\ pc = "idle"
    /\ UNCHANGED aside
    /\ hist.passes < MaxPasses
    /\ loc' = NoLocals
    /\ UNCHANGED <<cluster, policy>>
    /\ IF ~policy.exists
       THEN /\ obs' = [NewObs(now, policy.Status) EXCEPT !.found = FALSE]
            /\ prs' = prs
            /\ pc' = "idle"
            /\ result' = NoResult
            /\ hist' = [hist EXCEPT !.passes = @ + 1, !.prevStart = IF hist.passes > 0 THEN obs.start ELSE NoTime,
                                        !.prevErr = result.err]
       ELSE LET p == [stale |-> FALSE, Status |-> policy.Status] IN
            /\ prs' = p
            /\ IF shouldRunAnalysis(p, now)
               THEN /\ obs' = [NewObs(now, policy.Status) EXCEPT !.due = TRUE]
                    /\ pc' = "analyzing"
                    /\ result' = NoResult
                    /\ hist' = [hist EXCEPT !.prevStart = IF hist.passes > 0 THEN obs.start ELSE NoTime,
                                        !.prevErr = result.err]
               ELSE /\ obs' = NewObs(now, policy.Status)
                    /\ pc' = "idle"
                    /\ result' = requeueAfter
                    /\ hist' = [hist EXCEPT !.passes = @ + 1, !.prevStart = IF hist.passes > 0 THEN obs.start ELSE NoTime,
                                        !.prevErr = result.err]

\* lines 633-636
WriteAnalyzing ==
    /\ pc = "analyzing"
    /\ UNCHANGED aside
    /\ LET w == updatePhase(prs, PhaseAnalyzing, "Starting resource analysis") IN
       /\ Write(w, PhaseAnalyzing)
       /\ IF w.ok
          THEN pc' = "discover" /\ UNCHANGED <<result, hist>>
          ELSE Return([RequeueAfter |-> 0, err |-> TRUE])
    /\ UNCHANGED <<cluster, loc>>

\* lines 638-663: discoverTargetPods, TargetedPods, groupPodsByWorkload
Discover ==
    /\ pc = "discover"
    /\ UNCHANGED aside
    /\ \E failNs \in BOOLEAN, failPods \in BOOLEAN :
         LET d == discoverTargetPods(running, failNs, failPods) IN
         IF d.err
         THEN /\ obs' = [obs EXCEPT !.discoveryFailed = TRUE, !.podLists = @ + d.lists]
              /\ pc' = "discoverFailed"
              /\ UNCHANGED <<prs, loc>>
         ELSE /\ obs' = [obs EXCEPT !.podLists = @ + d.lists]
              /\ prs' = [prs EXCEPT !.Status.TargetedPods = Cardinality(d.pods)]
              /\ loc' = [loc EXCEPT !.targetPods = d.pods,
                                    !.groups = DOMAIN groupPodsByWorkload(d.pods)]
              /\ pc' = IF d.pods = {} THEN "noPods" ELSE "recommending"
    /\ UNCHANGED <<cluster, policy, result, hist>>

\* lines 640-646: the Error write, whose failure is only logged
WriteDiscoveryError ==
    /\ pc = "discoverFailed"
    /\ UNCHANGED aside
    /\ Write(updatePhase(prs, PhaseError, "Failed to discover pods"), PhaseError)
    /\ Return([RequeueAfter |-> FiveMinutes, err |-> TRUE])
    /\ UNCHANGED <<cluster, loc>>

\* what a successful write of phase Completed records about its pass
Completes(h, count) ==
    [h EXCEPT !.completed = [pass |-> h.passes + 1, recs |-> loc.allRecommendations,
                             targeted |-> Cardinality(loc.targetPods), updated |-> count]]

\* WriteNoPods with the time of the pass recorded as the analysis time
WriteNoPodsRecordingAnalysis ==
    /\ pc = "noPods"
    /\ UNCHANGED aside
    /\ LET w == updatePhase([prs EXCEPT !.Status.LastAnalysisTime = now,
                                        !.Status.timeOf = hist.passes + 1],
                            PhaseCompleted, "No matching pods found") IN
       /\ Write(w, PhaseCompleted)
       /\ pc' = "idle"
       /\ IF w.ok
          THEN /\ result' = requeueAfter
               /\ hist' = [Completes(hist, 0) EXCEPT !.passes = @ + 1]
          ELSE /\ result' = [RequeueAfter |-> 0, err |-> TRUE]
               /\ hist' = [hist EXCEPT !.passes = @ + 1]
    /\ UNCHANGED <<cluster, loc>>

\* lines 654-660
WriteNoPods ==
    /\ pc = "noPods"
    /\ UNCHANGED aside
    /\ LET w == updatePhase(prs, PhaseCompleted, "No matching pods found") IN
       /\ Write(w, PhaseCompleted)
       /\ pc' = "idle"
       /\ IF w.ok
          THEN /\ result' = requeueAfter
               /\ hist' = [Completes(hist, 0) EXCEPT !.passes = @ + 1]
          ELSE /\ result' = [RequeueAfter |-> 0, err |-> TRUE]
               /\ hist' = [hist EXCEPT !.passes = @ + 1]
    /\ UNCHANGED <<cluster, loc>>

\* lines 665-668
WriteRecommending ==
    /\ pc = "recommending"
    /\ UNCHANGED aside
    /\ LET w == updatePhase(prs, PhaseRecommending, "Generating recommendations") IN
       /\ Write(w, PhaseRecommending)
       /\ IF w.ok
          THEN pc' = "generate" /\ UNCHANGED <<result, hist>>
          ELSE Return([RequeueAfter |-> 0, err |-> TRUE])
    /\ UNCHANGED <<cluster, loc>>

\* gather with a failing group discarding what the groups before it yielded
gatherForgetting(all, g) == IF g.err THEN <<>> ELSE all \o g.recs

\* lines 676-682: a group that failed is skipped, the recommendations of the
\* others are appended
gather(all, g) == IF g.err THEN all ELSE all \o g.recs

\* lines 673-683: one iteration of the loop over the workload groups (a Go
\* map, ranged over in any order)
GenerateGroup ==
    /\ pc = "generate"
    /\ UNCHANGED aside
    /\ \E k \in loc.groups, answer \in Answers :
         LET g == generateWorkloadRecommendations(
                      k, groupPodsByWorkload(loc.targetPods)[k], answer)
         IN  /\ loc' = [loc EXCEPT !.groups = @ \ {k},
                                   !.allRecommendations = gather(@, g)]
             /\ obs' = [obs EXCEPT
                          !.metricsCalls = @ + (IF g.called THEN 1 ELSE 0),
                          !.okGroups = IF g.err THEN @ ELSE @ \cup {k},
                          !.failedGroups = IF g.err THEN @ \cup {k} ELSE @,
                          !.produced = IF g.err THEN @ ELSE @ \cup SeqToSet(g.recs)]
    /\ UNCHANGED <<cluster, policy, pc, prs, result, hist>>

\* applyRecommendations, lines 1039-1044: the workloads that have recommendations
RecommendedWorkloads(recommendations) ==
    {RecKey(recommendations[i]) : i \in DOMAIN recommendations}

RecommendationsOf(recommendations, key) ==
    SelectSeq(recommendations, LAMBDA rec : RecKey(rec) = key)

\* afterAnalysis with DryRun not looked at, either way
afterAnalysisAlwaysUpdating == "updating"

afterAnalysisNeverUpdating == "completing"

\* lines 689-690 and 704-711: the step that follows the analysis
afterAnalysis == IF spec.DryRun THEN "completing" ELSE "updating"

\* lines 685-690: the loop is over; the recommendations and the analysis time
\* go into the in-memory status
RecordAnalysis ==
    /\ pc = "generate"
    /\ UNCHANGED aside
    /\ loc.groups = {}
    /\ prs' = [prs EXCEPT !.Status.Recommendations = loc.allRecommendations,
                          !.Status.LastAnalysisTime = now,
                          !.Status.recsOf = hist.passes + 1,
                          !.Status.timeOf = hist.passes + 1]
    /\ pc' = afterAnalysis
    /\ UNCHANGED <<cluster, policy, loc, result, obs, hist>>

\* WriteUpdating with the result of the status write not looked at
WriteUpdatingUnchecked ==
    /\ pc = "updating"
    /\ UNCHANGED aside
    /\ LET w == updatePhase(prs, PhaseUpdating, "Applying recommendations") IN
       /\ Write(w, PhaseUpdating)
       /\ pc' = "apply"
       /\ loc' = [loc EXCEPT !.applyLeft = RecommendedWorkloads(loc.allRecommendations)]
       /\ UNCHANGED <<result, hist>>
    /\ UNCHANGED cluster

\* lines 691-693
WriteUpdating ==
    /\ pc = "updating"
    /\ UNCHANGED aside
    /\ LET w == updatePhase(prs, PhaseUpdating, "Applying recommendations") IN
       /\ Write(w, PhaseUpdating)
       /\ IF w.ok
          THEN /\ pc' = "apply"
               /\ loc' = [loc EXCEPT !.applyLeft = RecommendedWorkloads(loc.allRecommendations)]
               /\ UNCHANGED <<result, hist>>
          ELSE /\ Return([RequeueAfter |-> 0, err |-> TRUE])
               /\ loc' = loc
    /\ UNCHANGED cluster

\* applyRecommendations, lines 1047-1057: one iteration of the loop over the workloads
ApplyWorkload ==
    /\ pc = "apply"
    /\ UNCHANGED aside
    /\ \E k \in loc.applyLeft, getFails \in BOOLEAN, updateFails \in BOOLEAN :
         LET a == applyWorkloadRecommendations(
                      k, RecommendationsOf(loc.allRecommendations, k), getFails, updateFails)
         IN  /\ workloads' = IF a.wrote THEN [workloads EXCEPT ![k] = a.containers]
                                        ELSE workloads
             /\ loc' = [loc EXCEPT !.applyLeft = @ \ {k},
                                   !.updatedCount = IF a.err THEN @ ELSE @ + a.n]
             /\ obs' = [obs EXCEPT !.gets = IF a.got THEN @ \cup {k} ELSE @,
                                   !.writes = IF a.wrote THEN @ \cup {k} ELSE @,
                                   !.applyFailed = IF a.err THEN @ \cup {k} ELSE @]
    /\ UNCHANGED <<spec, running, now, policy, pc, prs, result, hist>>

\* lines 695-702: the loop is over; the count and the update time go into
\* the in-memory status
RecordUpdates ==
    /\ pc = "apply"
    /\ UNCHANGED aside
    /\ loc.applyLeft = {}
    /\ prs' = [prs EXCEPT !.Status.UpdatedPods = loc.updatedCount,
                          !.Status.LastUpdateTime = now]
    /\ pc' = "completing"
    /\ UNCHANGED <<cluster, policy, loc, result, obs, hist>>

\* lines 704-719
WriteCompleted ==
    /\ pc = "completing"
    /\ UNCHANGED aside
    /\ LET message == IF spec.DryRun THEN "Analysis completed (dry-run mode)"
                                     ELSE "Analysis completed"
           w == updatePhase(prs, PhaseCompleted, message)
       IN  /\ Write(w, PhaseCompleted)
           /\ pc' = "idle"
           /\ IF w.ok
              THEN /\ result' = requeueAfter
                   /\ hist' = [Completes(hist, IF spec.DryRun THEN 0 ELSE loc.updatedCount)
                                  EXCEPT !.passes = @ + 1]
              ELSE /\ result' = [RequeueAfter |-> 0, err |-> TRUE]
                   /\ hist' = [hist EXCEPT !.passes = @ + 1]
    /\ UNCHANGED <<cluster, loc>>

----------------------------------------------------------------------------
(* The environment *)

\* An hour goes by.  The controller reads the clock in Fetch, RecordAnalysis
\* and RecordUpdates only, so it is enough to let the hour pass right before
\* one of them.
Tick ==
    /\ pc \in {"idle", "generate", "apply"}
    /\ UNCHANGED aside
    /\ now < MaxTicks * Hour
    /\ now' = now + Hour
    /\ UNCHANGED <<spec, policy, running, workloads, pc, prs, loc, result, obs, hist>>

\* Somebody else (a user, kubectl apply) writes the policy object, whose
\* resourceVersion moves on: the copy the running pass holds is stale from
\* then on.  Between two passes the edit shows nothing to the controller,
\* whose next Get reads the object anew; the controller meets the
\* resourceVersion in its status writes only, so it is enough to let the
\* edit happen right before one of them.
ExternalEdit ==
    /\ pc \notin {"idle", "discover", "generate", "apply"}
    /\ UNCHANGED aside
    /\ policy.exists
    /\ ~prs.stale
    /\ prs' = [prs EXCEPT !.stale = TRUE]
    /\ UNCHANGED <<spec, policy, running, workloads, now, pc, loc, result, obs, hist>>

\* a pod leaves phase Running.  Only the list call of Discover reads the
\* pods, so it is enough to let them stop right before it.
PodStops ==
    /\ pc = "discover"
    /\ UNCHANGED aside
    /\ \E p \in running : running' = running \ {p}
    /\ UNCHANGED <<spec, policy, workloads, now, pc, prs, loc, result, obs, hist>>

\* The policy object is deleted.  A deletion in the middle of a pass shows
\* to the pass as a refused status write, which ExternalEdit covers; what is
\* particular to it is what the next Get finds, so it is enough to let it
\* happen between two passes.
PolicyDeleted ==
    /\ pc = "idle"
    /\ UNCHANGED aside
    /\ policy.exists
    /\ hist.passes < MaxPasses
    /\ policy' = [policy EXCEPT !.exists = FALSE]
    /\ UNCHANGED <<spec, running, workloads, now, pc, prs, loc, result, obs, hist>>

Next ==
    \/ Fetch
    \/ WriteAnalyzing
    \/ Discover
    \/ WriteDiscoveryError
    \/ WriteNoPods
    \/ WriteRecommending
    \/ GenerateGroup
    \/ RecordAnalysis
    \/ WriteUpdating
    \/ ApplyWorkload
    \/ RecordUpdates
    \/ WriteCompleted
    \/ Tick
    \/ ExternalEdit
    \/ PodStops
    \/ PolicyDeleted

Spec == Init /\ [][Next]_vars

\* the steps of the controller
Reconcile ==
    \/ Fetch
    \/ WriteAnalyzing
    \/ Discover
    \/ WriteDiscoveryError
    \/ WriteNoPods
    \/ WriteRecommending
    \/ GenerateGroup
    \/ RecordAnalysis
    \/ WriteUpdating
    \/ ApplyWorkload
    \/ RecordUpdates
    \/ WriteCompleted

\* The runtime calls Reconcile again for a key whose pass returned an error
\* or a RequeueAfter, and a pass that has begun runs to its return: the
\* controller is never ready to step for ever without stepping.
ReconcileIsScheduled == WF_vars(Reconcile)

\* the policies the progress of the controller is checked with: one whose
\* discovery can fail in either list call and succeed in the next pass, one
\* whose discovery fails in every pass
TargetStagingSystem ==
    [Namespace |-> "", NamespaceSelector |-> "team=a", LabelSelector |-> "tier=system",
     ExcludeNamespaces |-> {}, IncludeWorkloadTypes |-> {}]

LivePolicies ==
    {Policy(TargetStagingSystem, "2h", FALSE, UpdateStrategyGradual),
     Policy(TargetBadLabelSelector, "2h", FALSE, UpdateStrategyImmediate)}

LiveInit ==
    /\ InitOf(LivePolicies)
    /\ app = NoApplications
    /\ ev = NoEvent
    /\ eng = NoEngineCall
    /\ calc = NoCalculation

LiveSpec == LiveInit /\ [][Next]_vars /\ ReconcileIsScheduled

----------------------------------------------------------------------------
(* Applying a template to a workload: applyWorkloadRecommendations and the  *)
(* update functions below it, on workloads and templates of any shape       *)

\* a corev1.ResourceList that gives quantity q to each of names
ResourceList(names, q) == [n \in names |-> q]

\* requests of 20 and of 21 units are five percent apart
RequestLists ==
    {ResourceList({}, 0), ResourceList({"cpu"}, 20), ResourceList({"cpu"}, 21),
     ResourceList({"cpu", "memory"}, 20)}

LimitLists == {ResourceList({}, 0), ResourceList({"cpu"}, 40)}

Requirements == {[Requests |-> r, Limits |-> l] : r \in RequestLists, l \in LimitLists}

\* the containers of a pod template: one or two of them
ContainerLists ==
    {<<c>> : c \in Requirements} \cup {<<c, d>> : c \in Requirements, d \in Requirements}

\* the fields of UpdatePolicy beside Strategy, unset and set
RolloutParameters ==
    {[MaxUnavailable |-> "nil", MaxSurge |-> "nil", BackoffLimit |-> 0, MinStabilityPeriod |-> ""],
     [MaxUnavailable |-> "25%", MaxSurge |-> "1", BackoffLimit |-> 3, MinStabilityPeriod |-> "5m"]}

\* ResourceThresholds.MinChangeThreshold, in percent: its default
DefaultMinChangeThreshold == 10

ApplyPolicies ==
    {Policy(TargetProdNamespace, "2h", FALSE, strategy) @@ rollout
        @@ [MinChangeThreshold |-> DefaultMinChangeThreshold] :
        strategy \in {UpdateStrategyImmediate, UpdateStrategyGradual, UpdateStrategyManual},
        rollout \in RolloutParameters}

ApplyInit ==
    /\ spec \in ApplyPolicies
    /\ policy = [exists |-> TRUE, Status |-> EmptyStatus]
    /\ running = PodNames
    /\ now = 0
    /\ pc = "apply"
    /\ prs = [stale |-> FALSE, Status |-> EmptyStatus]
    /\ loc = NoLocals
    /\ result = NoResult
    /\ obs = NewObs(0, EmptyStatus)
    /\ hist = [passes |-> 0, prevStart |-> NoTime, prevErr |-> FALSE,
               completed |-> [pass |-> 0, recs |-> <<>>, targeted |-> 0, updated |-> 0]]
    /\ \E k \in WorkloadKeys, cs \in ContainerLists, t \in Requirements :
          /\ workloads = [InitialWorkloads EXCEPT ![k] = cs]
          /\ app = [key |-> k, template |-> t, applied |-> <<>>]
    /\ ev = NoEvent
    /\ eng = NoEngineCall
    /\ calc = NoCalculation

\* the recommendations applyRecommendations hands over for the workload at
\* key, which recommend template
RecommendationsFor(key, template) ==
    <<[PodReference |-> [Name |-> "pod", Namespace |-> key[1],
                         WorkloadType |-> key[3], WorkloadName |-> key[5]],
       CurrentResources |-> Original,
       RecommendedResources |-> template]>>

\* applyRecommendations, lines 1047-1057, for the one workload: the same
\* step as ApplyWorkload, with what it found and what it left written down
ApplyTemplate ==
    /\ Len(app.applied) < MaxApplications
    /\ \E getFails \in BOOLEAN, updateFails \in BOOLEAN :
         LET a == applyWorkloadRecommendations(
                      app.key, RecommendationsFor(app.key, app.template), getFails, updateFails)
             after == IF a.wrote THEN a.containers ELSE workloads[app.key]
         IN  /\ workloads' = [workloads EXCEPT ![app.key] = after]
             /\ app' = [app EXCEPT !.applied =
                           Append(@, [n |-> a.n, err |-> a.err, got |-> a.got, wrote |-> a.wrote,
                                      getFails |-> getFails, updateFails |-> updateFails,
                                      before |-> workloads[app.key], after |-> after])]
    /\ UNCHANGED <<spec, policy, running, now, pc, prs, loc, result, obs, hist, ev, eng, calc>>

ApplyNext == ApplyTemplate

ApplySpec == ApplyInit /\ [][ApplyNext]_vars

----------------------------------------------------------------------------
(* Watches: which events of pods and workloads queue a reconcile request   *)
(* for the policy (SetupWithManager and the functions it registers)         *)

\* the name under which the policy is queued
PolicyKey == "policy"

\* the pods events are about: the pods of the cluster, and a pod whose
\* controller owner reference names the policy itself
EventPodNames == PodNames \cup {"probe"}

EventPod(name) ==
    IF name = "probe"
    THEN [Name |-> "probe", Namespace |-> "prod", Labels |-> {"tier=backend"},
          OwnerReferences |-> <<[Kind |-> "PodRightSizing", Name |-> PolicyKey]>>,
          Containers |-> <<Original>>]
    ELSE Pod(name)

\* the fields of a Deployment, StatefulSet or DaemonSet the matchers read
WorkloadObject(key) ==
    [Kind |-> key[3], Namespace |-> key[1], Name |-> key[5],
     TemplateLabels |-> IF key[5] = "agent" THEN {"tier=system"} ELSE {"tier=backend"},
     Containers |-> InitialWorkloads[key]]

\* the containers after an update that changed the resources of the last one
Changed(containers) == [containers EXCEPT ![Len(containers)] = Reduced]

\* creations, deletions, and updates with and without a change of resources
EventsOf(kind, name, key, containers) ==
    {[kind |-> kind, type |-> type, name |-> name, key |-> key,
      old |-> containers, new |-> containers] :
        type \in {"Create", "Update", "Delete"}}
    \cup {[kind |-> kind, type |-> "Update", name |-> name, key |-> key,
           old |-> containers, new |-> Changed(containers)]}

Events ==
    UNION {EventsOf("Pod", n, <<>>, EventPod(n).Containers) : n \in EventPodNames}
    \cup UNION {EventsOf(k[3], k[5], k, InitialWorkloads[k]) : k \in WorkloadKeys}

\* containerResourcesEqual
containerResourcesEqual(oldContainers, newContainers) ==
    /\ Len(oldContainers) = Len(newContainers)
    /\ \A i \in DOMAIN oldContainers : resourcesEqual(oldContainers[i], newContainers[i])

\* podMatchesTarget (nsGetFails: the Get of the pod's namespace fails)
podMatchesTarget(pod, nsGetFails) ==
    LET t == spec.Target IN
    /\ ~(t.Namespace # "" /\ pod.Namespace # t.Namespace)
    /\ ~isNamespaceExcluded(pod.Namespace, t.ExcludeNamespaces)
    /\ t.LabelSelector # "nil" =>
          t.LabelSelector # "bad" /\ MatchesSelector(t.LabelSelector, pod.Labels)
    /\ t.NamespaceSelector # "nil" =>
          /\ ~nsGetFails
          /\ t.NamespaceSelector # "bad"
          /\ MatchesSelector(t.NamespaceSelector, NamespaceLabels[pod.Namespace])
    /\ t.IncludeWorkloadTypes # {} => getWorkloadType(pod) \in t.IncludeWorkloadTypes

\* podToRightSizingRequests (listFails: the List of the policies fails)
podToRightSizingRequests(pod, listFails, nsGetFails) ==
    IF listFails THEN {}
    ELSE IF podMatchesTarget(pod, nsGetFails) THEN {PolicyKey} ELSE {}

\* getWorkloadTypeFromObject
getWorkloadTypeFromObject(obj) ==
    IF obj.Kind \in {WorkloadTypeDeployment, WorkloadTypeStatefulSet, WorkloadTypeDaemonSet}
    THEN obj.Kind ELSE "Unknown"

\* getPodLabelsFromWorkload
getPodLabelsFromWorkload(obj) == obj.TemplateLabels

matchesNamespace(obj) ==
    IF spec.Target.Namespace # "" /\ obj.Namespace # spec.Target.Namespace THEN FALSE
    ELSE ~isNamespaceExcluded(obj.Namespace, spec.Target.ExcludeNamespaces)

matchesWorkloadType(obj) ==
    \/ spec.Target.IncludeWorkloadTypes = {}
    \/ getWorkloadTypeFromObject(obj) \in spec.Target.IncludeWorkloadTypes

matchesLabelSelector(obj) ==
    IF spec.Target.LabelSelector = "nil" THEN TRUE
    ELSE IF spec.Target.LabelSelector = "bad" THEN FALSE
    ELSE MatchesSelector(spec.Target.LabelSelector, getPodLabelsFromWorkload(obj))

matchesNamespaceSelector(obj, nsGetFails) ==
    IF spec.Target.NamespaceSelector = "nil" THEN TRUE
    ELSE IF nsGetFails THEN FALSE
    ELSE IF spec.Target.NamespaceSelector = "bad" THEN FALSE
    ELSE MatchesSelector(spec.Target.NamespaceSelector, NamespaceLabels[obj.Namespace])

\* workloadMatchesTarget
workloadMatchesTarget(obj, nsGetFails) ==
    /\ matchesNamespace(obj)
    /\ matchesWorkloadType(obj)
    /\ matchesLabelSelector(obj)
    /\ matchesNamespaceSelector(obj, nsGetFails)

\* workloadToRightSizingRequests
workloadToRightSizingRequests(obj, listFails, nsGetFails) ==
    IF listFails THEN {}
    ELSE IF workloadMatchesTarget(obj, nsGetFails) THEN {PolicyKey} ELSE {}

\* the predicate of the pod watch that lets deletions through as well
PodPredicateAnyEvent(e) ==
    IF e.type = "Update" THEN ~containerResourcesEqual(e.old, e.new) ELSE TRUE

\* the predicate of the pod watch: UpdateFunc, CreateFunc, DeleteFunc
PodPredicate(e) ==
    CASE e.type = "Update" -> ~containerResourcesEqual(e.old, e.new)
      [] e.type = "Create" -> TRUE
      [] e.type = "Delete" -> FALSE
      [] OTHER -> TRUE

\* the predicate of the Deployment watch: an UpdateFunc only
DeploymentPredicate(e) ==
    IF e.type = "Update" THEN ~containerResourcesEqual(e.old, e.new) ELSE TRUE

\* Owns(&corev1.Pod{}): the policies a pod names as its owner
OwnersOf(pod) ==
    {pod.OwnerReferences[i].Name :
        i \in {j \in DOMAIN pod.OwnerReferences : pod.OwnerReferences[j].Kind = "PodRightSizing"}}

Delivered(requests, listFails, nsGetFails) ==
    [ev EXCEPT !.delivered = TRUE, !.enqueued = requests,
               !.listFails = listFails, !.nsGetFails = nsGetFails]

EventInit ==
    /\ InitOf(PolicySpecs)
    /\ app = NoApplications
    /\ eng = NoEngineCall
    /\ calc = NoCalculation
    /\ \E e \in Events : ev = [NoEvent EXCEPT !.event = e]

\* an event of a pod: the owner handler, and the watch with its predicate
\* and podToRightSizingRequests
PodEvent ==
    /\ ~ev.delivered
    /\ ev.event.kind = "Pod"
    /\ \E listFails \in BOOLEAN, nsGetFails \in BOOLEAN :
         LET pod == [EventPod(ev.event.name) EXCEPT !.Containers = ev.event.new]
             mapped == IF PodPredicate(ev.event)
                       THEN podToRightSizingRequests(pod, listFails, nsGetFails)
                       ELSE {}
         IN  ev' = Delivered(OwnersOf(pod) \cup mapped, listFails, nsGetFails)
    /\ UNCHANGED <<spec, policy, running, workloads, now, pc, prs, loc, result, obs, hist, app, eng, calc>>

\* an event of a Deployment: the watch with its predicate and
\* workloadToRightSizingRequests
DeploymentEvent ==
    /\ ~ev.delivered
    /\ ev.event.kind = WorkloadTypeDeployment
    /\ \E listFails \in BOOLEAN, nsGetFails \in BOOLEAN :
         LET obj == [WorkloadObject(ev.event.key) EXCEPT !.Containers = ev.event.new]
             mapped == IF DeploymentPredicate(ev.event)
                       THEN workloadToRightSizingRequests(obj, listFails, nsGetFails)
                       ELSE {}
         IN  ev' = Delivered(mapped, listFails, nsGetFails)
    /\ UNCHANGED <<spec, policy, running, workloads, now, pc, prs, loc, result, obs, hist, app, eng, calc>>

\* the kinds SetupWithManager registers a handler for
WatchedKinds == {"Pod", WorkloadTypeDeployment}

\* an event of any other kind reaches no handler
UnwatchedEvent ==
    /\ ~ev.delivered
    /\ ev.event.kind \notin WatchedKinds
    /\ ev' = Delivered({}, FALSE, FALSE)
    /\ UNCHANGED <<spec, policy, running, workloads, now, pc, prs, loc, result, obs, hist, app, eng, calc>>

EventNext ==
    \/ PodEvent
    \/ DeploymentEvent
    \/ UnwatchedEvent

EventSpec == EventInit /\ [][EventNext]_vars

----------------------------------------------------------------------------
(* The recommendation engine (pkg/analyzer/recommendation_engine.go):       *)
(* GenerateRecommendations on the metrics of the pods of one workload       *)

\* NewRecommendationEngine
DefaultConfidenceThreshold == 70
MinDataPoints == 10

\* A usage history, []metrics.ResourceUsage, by what the engine's decisions
\* read of it: n, the number of its samples, and cv, the coefficient of
\* variation of their values (standard deviation over mean) in thousandths
History(n, cv) == [n |-> n, cv |-> cv]

Histories == {History(n, cv) : n \in {9, 10, 100}, cv \in {50, 400, 500, 501, 1000}}

\* metrics.PodMetrics
PodMetrics == [CPUUsageHistory : Histories, MemUsageHistory : Histories]

\* WorkloadMetrics.Pods: no pod, one pod, two pods
WorkloadPods ==
    {<<>>} \cup {<<p>> : p \in PodMetrics} \cup {<<p, q>> : p \in PodMetrics, q \in PodMetrics}

Min(a, b) == IF a <= b THEN a ELSE b

\* calculateConfidence with the scores of its comment: 95 to 100 below a
\* variation of 0.1, 70 to 95 up to 0.3, 50 to 70 up to 0.5, 30 to 50 above
calculateConfidenceAsCommented(values) ==
    IF values.n < 2 THEN 50
    ELSE LET cv == values.cv
             confidence ==
                 IF cv > 500 THEN 30 + (20 * (500 - Min(cv - 500, 500))) \div 500
                 ELSE IF cv > 300 THEN 50 + (20 * (200 - (cv - 300))) \div 200
                 ELSE IF cv > 100 THEN 70 + (25 * (200 - (cv - 100))) \div 200
                 ELSE 95 + (5 * (100 - cv)) \div 100
             dataPointBoost == Min(values.n, 10)
         IN  Min((confidence * (100 + dataPointBoost)) \div 100, 100)

\* calculateConfidence without the cap at 100 after the boost
calculateConfidenceUncapped(values) ==
    IF values.n < 2 THEN 50
    ELSE LET cv == values.cv
             confidence ==
                 IF cv > 500 THEN 30 + (20 * (500 - Min(cv - 500, 500))) \div 500
                 ELSE IF cv > 300 THEN 70 + (25 * (200 - (cv - 300))) \div 200
                 ELSE IF cv > 100 THEN 95 + (5 * (200 - (cv - 100))) \div 200
                 ELSE 100
             dataPointBoost == Min(values.n, 10)
         IN  (confidence * (100 + dataPointBoost)) \div 100

\* calculateConfidence: the score of the coefficient of variation, then the
\* boost for the number of samples, int() truncating
calculateConfidence(values) ==
    IF values.n < 2 THEN 50
    ELSE LET cv == values.cv
             confidence ==
                 IF cv > 500 THEN 30 + (20 * (500 - Min(cv - 500, 500))) \div 500
                 ELSE IF cv > 300 THEN 70 + (25 * (200 - (cv - 300))) \div 200
                 ELSE IF cv > 100 THEN 95 + (5 * (200 - (cv - 100))) \div 200
                 ELSE 100
             dataPointBoost == Min(values.n, 10)
         IN  Min((confidence * (100 + dataPointBoost)) \div 100, 100)

\* a nil *ResourceRecommendation
NilRecommendation == [present |-> FALSE, Confidence |-> 0, DataPoints |-> 0]

\* analyzeCPUUsage without the check of the number of samples
analyzeCPUUsageAnyLength(cpuHistory) ==
    LET confidence == calculateConfidence(cpuHistory) IN
    [recommendation |-> [present |-> TRUE, Confidence |-> confidence,
                         DataPoints |-> cpuHistory.n],
     confidence |-> confidence, err |-> FALSE]

\* analyzeCPUUsage: [recommendation, confidence, err]
analyzeCPUUsage(cpuHistory) ==
    IF cpuHistory.n < MinDataPoints
    THEN [recommendation |-> NilRecommendation, confidence |-> 0, err |-> TRUE]
    ELSE LET confidence == calculateConfidence(cpuHistory) IN
         [recommendation |-> [present |-> TRUE, Confidence |-> confidence,
                              DataPoints |-> cpuHistory.n],
          confidence |-> confidence, err |-> FALSE]

\* analyzeMemoryUsage: [recommendation, confidence, err]
analyzeMemoryUsage(memoryHistory) ==
    IF memoryHistory.n < MinDataPoints
    THEN [recommendation |-> NilRecommendation, confidence |-> 0, err |-> TRUE]
    ELSE LET confidence == calculateConfidence(memoryHistory) IN
         [recommendation |-> [present |-> TRUE, Confidence |-> confidence,
                              DataPoints |-> memoryHistory.n],
          confidence |-> confidence, err |-> FALSE]

\* what the engine skipped or did not get to
NotAnalysed == [recommendation |-> NilRecommendation, confidence |-> 0, err |-> FALSE]

NoPodRecommendation == [present |-> FALSE, PodName |-> 0, Confidence |-> 0]

\* generatePodRecommendation with the confidence of the CPU analysis taken
\* for the overall one
generatePodRecommendationByCPU(podName, podMetrics) ==
    LET cpu == analyzeCPUUsage(podMetrics.CPUUsageHistory)
        memory == analyzeMemoryUsage(podMetrics.MemUsageHistory)
        nothing == [recommendation |-> NoPodRecommendation, err |-> FALSE,
                    cpu |-> cpu, memory |-> memory]
    IN  IF cpu.err THEN [nothing EXCEPT !.err = TRUE, !.memory = NotAnalysed]
        ELSE IF memory.err THEN [nothing EXCEPT !.err = TRUE]
        ELSE IF cpu.confidence < DefaultConfidenceThreshold THEN nothing
        ELSE [nothing EXCEPT !.recommendation =
                 [present |-> TRUE, PodName |-> podName, Confidence |-> cpu.confidence]]

\* generatePodRecommendation: [recommendation, err], and the two analyses
\* it made (the pod is named by its place in the workload's metrics)
generatePodRecommendation(podName, podMetrics) ==
    LET cpu == analyzeCPUUsage(podMetrics.CPUUsageHistory)
        memory == analyzeMemoryUsage(podMetrics.MemUsageHistory)
        overallConfidence == Min(cpu.confidence, memory.confidence)
        nothing == [recommendation |-> NoPodRecommendation, err |-> FALSE,
                    cpu |-> cpu, memory |-> memory]
    IN  IF cpu.err THEN [nothing EXCEPT !.err = TRUE, !.memory = NotAnalysed]
        ELSE IF memory.err THEN [nothing EXCEPT !.err = TRUE]
        ELSE IF overallConfidence < DefaultConfidenceThreshold THEN nothing
        ELSE [nothing EXCEPT !.recommendation =
                 [present |-> TRUE, PodName |-> podName, Confidence |-> overallConfidence]]

EngineInit ==
    /\ InitOf(PolicySpecs)
    /\ spec = Policy(TargetProdNamespace, "2h", TRUE, UpdateStrategyGradual)
    /\ app = NoApplications
    /\ ev = NoEvent
    /\ calc = NoCalculation
    /\ \E pods \in WorkloadPods : eng = [NoEngineCall EXCEPT !.pods = pods]

\* GenerateRecommendations, lines 63-65: no pod metrics
NoPodMetrics ==
    /\ ~eng.returned
    /\ Len(eng.pods) = 0
    /\ eng' = [eng EXCEPT !.returned = TRUE, !.err = TRUE]
    /\ UNCHANGED <<spec, policy, running, workloads, now, pc, prs, loc, result, obs, hist, app, ev, calc>>

\* GenerateRecommendations, lines 74-86: one iteration of the loop over the pods
AnalyzePod ==
    /\ ~eng.returned
    /\ Len(eng.analyses) < Len(eng.pods)
    /\ LET i == Len(eng.analyses) + 1
           g == generatePodRecommendation(i, eng.pods[i])
       IN  eng' = [eng EXCEPT
                     !.analyses = Append(@, g),
                     !.recommendations =
                         IF ~g.err /\ g.recommendation.present
                         THEN Append(@, g.recommendation) ELSE @]
    /\ UNCHANGED <<spec, policy, running, workloads, now, pc, prs, loc, result, obs, hist, app, ev, calc>>

\* GenerateRecommendations, lines 88-92: the loop is over
ReturnRecommendations ==
    /\ ~eng.returned
    /\ Len(eng.pods) > 0
    /\ Len(eng.analyses) = Len(eng.pods)
    /\ eng' = [eng EXCEPT !.returned = TRUE, !.err = FALSE]
    /\ UNCHANGED <<spec, policy, running, workloads, now, pc, prs, loc, result, obs, hist, app, ev, calc>>

EngineNext ==
    \/ NoPodMetrics
    \/ AnalyzePod
    \/ ReturnRecommendations

EngineSpec == EngineInit /\ [][EngineNext]_vars

----------------------------------------------------------------------------
(* The statistics of the engine on the values of a history: numbers are    *)
(* whole multiples of the unit of the samples, and a result that is not a  *)
(* whole number is kept as a whole number of hundredths                    *)

NotCalculated == -1

RECURSIVE Ascending(_, _, _)
\* the ascending sequences of length n over the values from lowest up
Ascending(n, lowest, values) ==
    IF n = 0 THEN {<<>>}
    ELSE UNION {{<<v>> \o s : s \in Ascending(n - 1, v, values)} :
                   v \in {w \in values : w >= lowest}}

\* TestCalculatePercentile: values
OneToTen == <<1, 2, 3, 4, 5, 6, 7, 8, 9, 10>>

\* TestCalculateConfidence: consistentValues, in hundredths, sorted
ConsistentValues == <<48, 49, 49, 50, 50, 50, 51, 51, 51, 52>>

\* sortedValues: what sort.Float64s leaves of the values of a history
SortedSamples ==
    UNION {Ascending(n, 0, {0, 1, 2, 5}) : n \in 0..4} \cup {OneToTen, ConsistentValues}

\* the percentiles asked for: thresholds.CPUUtilizationPercentile is an int
Percentiles == {-5, 0, 1, 25, 50, 90, 95, 99, 100, 150}

\* calculatePercentile with the upper neighbour taken whole
calculatePercentileUnweighted(sortedValues, percentile) ==
    IF Len(sortedValues) = 0 THEN 0
    ELSE IF percentile <= 0 THEN 100 * sortedValues[1]
    ELSE IF percentile >= 100 THEN 100 * sortedValues[Len(sortedValues)]
    ELSE LET index == percentile * (Len(sortedValues) - 1)
             lower == index \div 100
             weight == index % 100
         IN  IF weight = 0 THEN 100 * sortedValues[lower + 1]
             ELSE sortedValues[lower + 1] * (100 - weight) + sortedValues[lower + 2] * 100

\* calculatePercentile returning the upper neighbour (nearest rank)
calculatePercentileNearestRank(sortedValues, percentile) ==
    IF Len(sortedValues) = 0 THEN 0
    ELSE IF percentile <= 0 THEN 100 * sortedValues[1]
    ELSE IF percentile >= 100 THEN 100 * sortedValues[Len(sortedValues)]
    ELSE LET index == percentile * (Len(sortedValues) - 1)
             lower == index \div 100
             weight == index % 100
         IN  IF weight = 0 THEN 100 * sortedValues[lower + 1]
             ELSE 100 * sortedValues[lower + 2]

\* calculatePercentile, in hundredths; index is kept in hundredths too:
\* lower is its whole part, weight its fraction, upper is lower + 1 when
\* the fraction is not zero (sequences count from 1, slices from 0)
calculatePercentile(sortedValues, percentile) ==
    IF Len(sortedValues) = 0 THEN 0
    ELSE IF percentile <= 0 THEN 100 * sortedValues[1]
    ELSE IF percentile >= 100 THEN 100 * sortedValues[Len(sortedValues)]
    ELSE LET index == percentile * (Len(sortedValues) - 1)
             lower == index \div 100
             weight == index % 100
         IN  IF weight = 0 THEN 100 * sortedValues[lower + 1]
             ELSE sortedValues[lower + 1] * (100 - weight) + sortedValues[lower + 2] * weight

RECURSIVE SumOfValues(_)
\* calculateMean: sum; the mean is sum / len(values)
SumOfValues(values) ==
    IF values = <<>> THEN 0 ELSE Head(values) + SumOfValues(Tail(values))

RECURSIVE SumSquaredDiffOf(_, _, _)
\* calculateStandardDeviation: sumSquaredDiff, times len(values) squared
SumSquaredDiffOf(values, n, sum) ==
    IF values = <<>> THEN 0
    ELSE (n * Head(values) - sum) * (n * Head(values) - sum)
             + SumSquaredDiffOf(Tail(values), n, sum)

\* the root of a / b, rounded up: the least c with c * c * b >= a (the
\* values of a sample are not negative, so cv is at most the root of n)
CeilingOfRoot(a, b) ==
    CHOOSE c \in 0..400 : c * c * b >= a /\ (c = 0 \/ (c - 1) * (c - 1) * b < a)

\* calculateConfidence: cv, in thousandths, rounded up to a hundredth (the
\* score inside a band can so be one less than the program's);
\* stdDev / mean is the root of sumSquaredDiff / ((n - 1) * mean * mean)
CoefficientOfVariation(values) ==
    LET n == Len(values)
        sum == SumOfValues(values)
    IN  IF n < 2 \/ sum <= 0 THEN 0
        ELSE 10 * CeilingOfRoot(10000 * SumSquaredDiffOf(values, n, sum),
                                (n - 1) * sum * sum)

\* the history of the given values, as calculateConfidence reads it
HistoryOf(values) == History(Len(values), CoefficientOfVariation(values))

StatisticsInit ==
    /\ InitOf(PolicySpecs)
    /\ spec = Policy(TargetProdNamespace, "2h", TRUE, UpdateStrategyGradual)
    /\ app = NoApplications
    /\ ev = NoEvent
    /\ eng = NoEngineCall
    /\ \E sample \in SortedSamples, p \in Percentiles :
          calc = [sample |-> sample, percentile |-> p,
                  percentileValue |-> NotCalculated, confidence |-> NotCalculated]

\* analyzeCPUUsage, line 223: r.calculatePercentile(values, float64(percentile))
CalculatePercentile ==
    /\ calc.percentileValue = NotCalculated
    /\ calc' = [calc EXCEPT !.percentileValue = calculatePercentile(calc.sample, calc.percentile)]
    /\ UNCHANGED <<spec, policy, running, workloads, now, pc, prs, loc, result, obs, hist, app, ev, eng>>

\* analyzeCPUUsage, line 248: r.calculateConfidence(values)
CalculateConfidence ==
    /\ calc.confidence = NotCalculated
    /\ calc' = [calc EXCEPT !.confidence = calculateConfidence(HistoryOf(calc.sample))]
    /\ UNCHANGED <<spec, policy, running, workloads, now, pc, prs, loc, result, obs, hist, app, ev, eng>>

StatisticsNext ==
    \/ CalculatePercentile
    \/ CalculateConfidence

StatisticsSpec == StatisticsInit /\ [][StatisticsNext]_vars

----------------------------------------------------------------------------
(* The sizes of a recommendation: generatePodRecommendation on the values  *)
(* of the two histories of a pod.  CPU is counted in millicores and memory *)
(* in bytes, the units of the quantities the engine builds.                *)

\* NewRecommendationEngine; the multipliers in tenths
DefaultSafetyMargin == 20
CPURequestMultiplier == 8
MemoryRequestMultiplier == 9
\* analyzeCPUUsage, analyzeMemoryUsage: percentile := 95
DefaultPercentile == 95

RECURSIVE SortedValues(_)
\* values := copy of the history's values; sort.Float64s(values)
SortedValues(history) ==
    IF history = <<>> THEN <<>>
    ELSE LET rest == SortedValues(Tail(history))
             before == SelectSeq(rest, LAMBDA v : v <= Head(history))
             after == SelectSeq(rest, LAMBDA v : v > Head(history))
         IN  before \o <<Head(history)>> \o after

\* histories of ten samples, the greatest first: eight low, one middle, one high
UsageHistories ==
    {[i \in 1..10 |-> IF i = 1 THEN high ELSE IF i = 2 THEN middle ELSE low] :
        low \in {0, 4, 5}, middle \in {5, 6}, high \in {6, 12}}

\* ResourceThresholds as validateThresholds admits them: a quantity that is
\* zero is not set, and a minimum is not above a maximum when both are set
Thresholds ==
    {t \in [CPUUtilizationPercentile : {0, 90}, MemoryUtilizationPercentile : {0, 50},
            SafetyMargin : {0, 15}, MinCPU : {0, 5, 8}, MaxCPU : {0, 8, 20},
            MinMemory : {0, 7}, MaxMemory : {0, 7}] :
        /\ (t.MinCPU # 0 /\ t.MaxCPU # 0) => t.MinCPU <= t.MaxCPU
        /\ (t.MinMemory # 0 /\ t.MaxMemory # 0) => t.MinMemory <= t.MaxMemory}

\* analyzeCPUUsage taking a percentile and a safety margin of 0 as configured
recommendedLimitAsConfigured(history, percentile, safetyMargin, minimum, maximum) ==
    LET percentileValue == calculatePercentile(SortedValues(history), percentile)
        inflated == percentileValue * (100 + safetyMargin)
        raised == IF minimum # 0 /\ inflated < 10000 * minimum
                  THEN 10000 * minimum ELSE inflated
        capped == IF maximum # 0 /\ raised > 10000 * maximum
                  THEN 10000 * maximum ELSE raised
    IN  [Percentile |-> percentileValue, Limit |-> capped \div 10000]

\* analyzeCPUUsage without the minimum and maximum constraints
recommendedLimitUnconstrained(history, percentile, safetyMargin, minimum, maximum) ==
    LET p == IF percentile > 0 THEN percentile ELSE DefaultPercentile
        margin == IF safetyMargin > 0 THEN safetyMargin ELSE DefaultSafetyMargin
        percentileValue == calculatePercentile(SortedValues(history), p)
    IN  [Percentile |-> percentileValue,
         Limit |-> (percentileValue * (100 + margin)) \div 10000]

\* analyzeCPUUsage and analyzeMemoryUsage, lines 214-256: the percentile (in
\* hundredths), the safety margin, the constraints (recommendedLimit is kept
\* in ten-thousandths), and the limit as a quantity of whole units, int64()
\* truncating
recommendedLimit(history, percentile, safetyMargin, minimum, maximum) ==
    LET p == IF percentile > 0 THEN percentile ELSE DefaultPercentile
        margin == IF safetyMargin > 0 THEN safetyMargin ELSE DefaultSafetyMargin
        percentileValue == calculatePercentile(SortedValues(history), p)
        inflated == percentileValue * (100 + margin)
        raised == IF minimum # 0 /\ inflated < 10000 * minimum
                  THEN 10000 * minimum ELSE inflated
        capped == IF maximum # 0 /\ raised > 10000 * maximum
                  THEN 10000 * maximum ELSE raised
    IN  [Percentile |-> percentileValue, Limit |-> capped \div 10000]

\* generatePodRecommendation dividing by the multiplier
requestValueDivided(limitValue, multiplier) == (limitValue * 10) \div multiplier

\* generatePodRecommendation, lines 149-164: requestValue, as a quantity
requestValue(limitValue, multiplier) == (limitValue * multiplier) \div 10

SizingInit ==
    /\ InitOf(PolicySpecs)
    /\ spec = Policy(TargetProdNamespace, "2h", TRUE, UpdateStrategyGradual)
    /\ app = NoApplications
    /\ ev = NoEvent
    /\ eng = NoEngineCall
    /\ \E cpuHistory \in UsageHistories, memoryHistory \in UsageHistories,
          thresholds \in Thresholds :
          calc = [sample |-> <<>>,
                  pod |-> [CPUUsageHistory |-> cpuHistory, MemUsageHistory |-> memoryHistory],
                  thresholds |-> thresholds,
                  analysed |-> FALSE,
                  cpu |-> [Percentile |-> 0, Limit |-> 0],
                  memory |-> [Percentile |-> 0, Limit |-> 0],
                  returned |-> FALSE,
                  recommendation |-> NoPodRecommendation,
                  Requests |-> [cpu |-> 0, memory |-> 0],
                  Limits |-> [cpu |-> 0, memory |-> 0]]

\* generatePodRecommendation, lines 107-122: the two analyses
AnalyzeResources ==
    /\ ~calc.analysed
    /\ calc' = [calc EXCEPT
          !.analysed = TRUE,
          !.cpu = recommendedLimit(calc.pod.CPUUsageHistory,
                      calc.thresholds.CPUUtilizationPercentile, calc.thresholds.SafetyMargin,
                      calc.thresholds.MinCPU, calc.thresholds.MaxCPU),
          !.memory = recommendedLimit(calc.pod.MemUsageHistory,
                      calc.thresholds.MemoryUtilizationPercentile, calc.thresholds.SafetyMargin,
                      calc.thresholds.MinMemory, calc.thresholds.MaxMemory)]
    /\ UNCHANGED <<spec, policy, running, workloads, now, pc, prs, loc, result, obs, hist, app, ev, eng>>

\* generatePodRecommendation, lines 124-190: the confidence, and for a
\* confidence of the threshold or more the recommended resources
BuildRecommendation ==
    /\ calc.analysed /\ ~calc.returned
    /\ LET g == generatePodRecommendation(1,
                    [CPUUsageHistory |-> HistoryOf(SortedValues(calc.pod.CPUUsageHistory)),
                     MemUsageHistory |-> HistoryOf(SortedValues(calc.pod.MemUsageHistory))])
       IN  calc' = [calc EXCEPT
             !.returned = TRUE,
             !.recommendation = g.recommendation,
             !.Limits = IF g.recommendation.present
                        THEN [cpu |-> calc.cpu.Limit, memory |-> calc.memory.Limit] ELSE @,
             !.Requests = IF g.recommendation.present
                          THEN [cpu |-> requestValue(calc.cpu.Limit, CPURequestMultiplier),
                                memory |-> requestValue(calc.memory.Limit, MemoryRequestMultiplier)]
                          ELSE @]
    /\ UNCHANGED <<spec, policy, running, workloads, now, pc, prs, loc, result, obs, hist, app, ev, eng>>

SizingNext ==
    \/ AnalyzeResources
    \/ BuildRecommendation

SizingSpec == SizingInit /\ [][SizingNext]_vars

----------------------------------------------------------------------------
(* Two workers in the engine at once: each analyses the CPU history of its *)
(* pod with the one engine of the controller.  What the workers share is   *)
(* the engine's fields and the memory of the histories; values, the slice  *)
(* that is sorted, is a local of each call.                                *)

\* two of the controller's MaxConcurrentReconciles workers
Workers == {1, 2}

\* NewRecommendationEngine: the fields of the engine
NewRecommendationEngine ==
    [DefaultSafetyMargin |-> DefaultSafetyMargin,
     DefaultConfidenceThreshold |-> DefaultConfidenceThreshold,
     MinDataPoints |-> MinDataPoints,
     CPURequestMultiplier |-> CPURequestMultiplier,
     MemoryRequestMultiplier |-> MemoryRequestMultiplier]

\* analyzeCPUUsage sorting the history itself
extractValuesInPlace(cpuHistory) ==
    [cpuHistory |-> SortedValues(cpuHistory), values |-> SortedValues(cpuHistory)]

\* analyzeCPUUsage, lines 213-218: what the copying loop and the sort leave
\* of the history and of values
extractValues(cpuHistory) ==
    [cpuHistory |-> cpuHistory, values |-> SortedValues(cpuHistory)]

ConcurrentInit ==
    /\ InitOf(PolicySpecs)
    /\ spec = Policy(TargetProdNamespace, "2h", TRUE, UpdateStrategyGradual)
    /\ app = NoApplications
    /\ ev = NoEvent
    /\ eng = NoEngineCall
    /\ \E given \in [Workers -> UsageHistories] :
          calc = [sample |-> <<>>,
                  engine |-> NewRecommendationEngine,
                  given |-> given,
                  cpuHistory |-> given,
                  values |-> [w \in Workers |-> <<>>],
                  at |-> [w \in Workers |-> "called"],
                  out |-> [w \in Workers |-> [Percentile |-> 0, Limit |-> 0, confidence |-> 0]]]

\* analyzeCPUUsage, lines 209-218, by worker w
ExtractValues(w) ==
    /\ calc.at[w] = "called"
    /\ Len(calc.cpuHistory[w]) >= calc.engine.MinDataPoints
    /\ LET e == extractValues(calc.cpuHistory[w]) IN
       calc' = [calc EXCEPT !.cpuHistory[w] = e.cpuHistory,
                            !.values[w] = e.values,
                            !.at[w] = "sorted"]
    /\ UNCHANGED <<spec, policy, running, workloads, now, pc, prs, loc, result, obs, hist, app, ev, eng>>

\* analyzeCPUUsage, lines 220-266, by worker w, with no thresholds set
AnalyzeValues(w) ==
    /\ calc.at[w] = "sorted"
    /\ LET percentileValue == calculatePercentile(calc.values[w], DefaultPercentile) IN
       calc' = [calc EXCEPT
          !.at[w] = "returned",
          !.out[w] = [Percentile |-> percentileValue,
                      Limit |-> (percentileValue * (100 + calc.engine.DefaultSafetyMargin))
                                    \div 10000,
                      confidence |-> calculateConfidence(HistoryOf(calc.values[w]))]]
    /\ UNCHANGED <<spec, policy, running, workloads, now, pc, prs, loc, result, obs, hist, app, ev, eng>>

ConcurrentNext ==
    \E w \in Workers :
        \/ ExtractValues(w)
        \/ AnalyzeValues(w)

ConcurrentSpec == ConcurrentInit /\ [][ConcurrentNext]_vars

----------------------------------------------------------------------------
(* Two passes at one workload: two workers reconcile two policies whose    *)
(* targets hold the same Deployment, each with the template of its policy. *)
(* Each pass is in its apply step: it reads the Deployment, changes the    *)
(* copy it read and sends the copy back; the API server refuses an Update  *)
(* whose resourceVersion is not the one the object has.                    *)

SharedKey == WorkloadKey("prod", WorkloadTypeDeployment, "web")

\* the templates of the two policies, which differ
SharedTemplates ==
    {t \in [Workers -> Requirements] : \A v \in Workers, w \in Workers : v # w => t[v] # t[w]}

SharedInit ==
    /\ InitOf(PolicySpecs)
    /\ spec = Policy(TargetProdNamespace, "2h", FALSE, UpdateStrategyImmediate)
    /\ ev = NoEvent
    /\ eng = NoEngineCall
    /\ calc = NoCalculation
    /\ \E cs \in ContainerLists, t \in SharedTemplates :
          app = [key |-> SharedKey, template |-> t, applied |-> <<>>,
                 containers |-> cs, resourceVersion |-> 0,
                 deployment |-> [w \in Workers |-> [containers |-> <<>>, resourceVersion |-> 0]],
                 at |-> [w \in Workers |-> "updating"],
                 updated |-> [w \in Workers |-> 0],
                 err |-> [w \in Workers |-> FALSE],
                 conflict |-> [w \in Workers |-> FALSE],
                 wrote |-> <<>>,
                 Phase |-> [w \in Workers |-> PhaseUpdating],
                 UpdatedPods |-> [w \in Workers |-> 0]]

\* updateDeployment, lines 1121-1124: the Get, by the pass of worker w
GetDeployment(w) ==
    /\ app.at[w] = "updating"
    /\ \E getFails \in BOOLEAN :
         app' = IF getFails
                THEN [app EXCEPT !.at[w] = "applied", !.err[w] = TRUE]
                ELSE [app EXCEPT !.at[w] = "got",
                                 !.deployment[w] = [containers |-> app.containers,
                                                    resourceVersion |-> app.resourceVersion]]
    /\ UNCHANGED <<spec, policy, running, workloads, now, pc, prs, loc, result, obs, hist, ev, eng, calc>>

\* updateDeployment sending the containers it changed only, onto the object
\* as it is by now
PatchDeployment(w) ==
    /\ app.at[w] = "got"
    /\ LET u == updateContainerResources(app.deployment[w].containers, app.template[w]) IN
       app' = IF ~u.updated
              THEN [app EXCEPT !.at[w] = "applied"]
              ELSE [app EXCEPT !.at[w] = "applied", !.updated[w] = 1,
                               !.containers =
                                   [i \in DOMAIN @ |->
                                       IF u.containers[i] = app.deployment[w].containers[i]
                                       THEN @[i] ELSE u.containers[i]],
                               !.resourceVersion = @ + 1,
                               !.wrote = Append(@, w)]
    /\ UNCHANGED <<spec, policy, running, workloads, now, pc, prs, loc, result, obs, hist, ev, eng, calc>>

\* updateDeployment, lines 1126-1140: the containers of the copy are set to
\* the template and the copy is sent with the resourceVersion it was read at
UpdateDeployment(w) ==
    /\ app.at[w] = "got"
    /\ LET u == updateContainerResources(app.deployment[w].containers, app.template[w])
           conflict == app.deployment[w].resourceVersion # app.resourceVersion
       IN  IF ~u.updated
           THEN app' = [app EXCEPT !.at[w] = "applied"]
           ELSE \E updateFails \in BOOLEAN :
                  app' = IF conflict \/ updateFails
                         THEN [app EXCEPT !.at[w] = "applied", !.err[w] = TRUE,
                                          !.conflict[w] = conflict]
                         ELSE [app EXCEPT !.at[w] = "applied", !.updated[w] = 1,
                                          !.containers = u.containers,
                                          !.resourceVersion = @ + 1,
                                          !.wrote = Append(@, w)]
    /\ UNCHANGED <<spec, policy, running, workloads, now, pc, prs, loc, result, obs, hist, ev, eng, calc>>

\* applyRecommendations, lines 1050-1056, and Reconcile, lines 695-719: an
\* error of the workload is logged, the count goes into the status and
\* phase Completed is written to the pass's own policy
CompletePass(w) ==
    /\ app.at[w] = "applied"
    /\ app' = [app EXCEPT !.at[w] = "completed",
                          !.UpdatedPods[w] = app.updated[w],
                          !.Phase[w] = PhaseCompleted]
    /\ UNCHANGED <<spec, policy, running, workloads, now, pc, prs, loc, result, obs, hist, ev, eng, calc>>

SharedNext ==
    \E w \in Workers :
        \/ GetDeployment(w)
        \/ UpdateDeployment(w)
        \/ CompletePass(w)

SharedSpec == SharedInit /\ [][SharedNext]_vars

----------------------------------------------------------------------------
(* The schedule: shouldRunAnalysis on policies of any analysis window, at   *)
(* any hour after the last analysis                                         *)

\* AnalysisWindow strings: unset, below the hour the webhook asks for, one
\* hour, a day, more than a day, and the default "7d" of the type, which
\* time.ParseDuration does not parse
AnalysisWindows == {"", "30m", "1h", "2h", "24h", "48h", "168h", "7d"}

ScheduleInit ==
    /\ spec \in {Policy(TargetProdNamespace, window, TRUE, UpdateStrategyGradual) :
                    window \in AnalysisWindows}
    /\ \E last \in {NoTime, 0} :
          policy = [exists |-> TRUE, Status |-> [EmptyStatus EXCEPT !.LastAnalysisTime = last]]
    /\ running = PodNames
    /\ workloads = InitialWorkloads
    /\ now = 0
    /\ pc = "idle"
    /\ prs = [stale |-> FALSE, Status |-> EmptyStatus]
    /\ loc = NoLocals
    /\ result = NoResult
    /\ obs = NewObs(0, EmptyStatus)
    /\ hist = [passes |-> 0, prevStart |-> NoTime, prevErr |-> FALSE,
               completed |-> [pass |-> 0, recs |-> <<>>, targeted |-> 0, updated |-> 0]]
    /\ app = NoApplications
    /\ ev = NoEvent
    /\ eng = NoEngineCall
    /\ calc = [sample |-> <<>>, asked |-> NoTime, due |-> FALSE]

\* an hour goes by
HourPasses ==
    /\ now < MaxHours * Hour
    /\ now' = now + Hour
    /\ UNCHANGED <<spec, policy, running, workloads, pc, prs, loc, result, obs, hist, aside>>

\* Reconcile, line 627: the call of shouldRunAnalysis
DecideAnalysis ==
    /\ calc' = [calc EXCEPT !.asked = now, !.due = shouldRunAnalysis(policy, now)]
    /\ UNCHANGED <<spec, policy, running, workloads, now, pc, prs, loc, result, obs, hist, app, ev, eng>>

ScheduleNext ==
    \/ HourPasses
    \/ DecideAnalysis

ScheduleSpec == ScheduleInit /\ [][ScheduleNext]_vars

----------------------------------------------------------------------------
(* Pods of any shape: shouldIncludePod, getWorkloadType and getWorkloadName *)
(* on two listed pods, the first of which has any owner references and     *)
(* containers                                                              *)

\* owner references: the ReplicaSet of Deployment web, a ReplicaSet that no
\* Deployment owns, the workload kinds, and a kind getWorkloadType does not
\* know
OwnerReferences ==
    {[Kind |-> "ReplicaSet", Name |-> "web-7c9"], [Kind |-> "ReplicaSet", Name |-> "lone-5d4"],
     [Kind |-> "StatefulSet", Name |-> "db"], [Kind |-> "DaemonSet", Name |-> "agent"],
     [Kind |-> "Job", Name |-> "backup"], [Kind |-> "Node", Name |-> "node-1"]}

OwnerReferenceLists ==
    {<<>>} \cup {<<o>> : o \in OwnerReferences}
           \cup ({<<o, q>> : o \in OwnerReferences, q \in OwnerReferences}
                    \ {<<o, o>> : o \in OwnerReferences})

\* containers without requests and limits, with them, and with a limit of
\* quantity 0 as the only entry
NoResources == [Requests |-> ResourceList({}, 0), Limits |-> ResourceList({}, 0)]

ListedContainers ==
    {<<NoResources>>, <<NoResources, Original>>, <<Original>>,
     <<[Requests |-> ResourceList({}, 0), Limits |-> ResourceList({"cpu"}, 0)]>>}

ListedPodNames == {"pod-a", "pod-b"}

IncludeLists == {{}, {WorkloadTypeDeployment}, {WorkloadTypeStatefulSet, "Job"}}

ListedInit ==
    /\ InitOf({Policy([TargetProdNamespace EXCEPT !.IncludeWorkloadTypes = types],
                      "2h", TRUE, UpdateStrategyGradual) : types \in IncludeLists})
    /\ app = NoApplications
    /\ ev = NoEvent
    /\ eng = NoEngineCall
    /\ \E owners \in OwnerReferenceLists, containers \in ListedContainers,
          run \in SUBSET ListedPodNames :
          calc = [sample |-> <<>>,
                  pods |-> [n \in ListedPodNames |->
                               IF n = "pod-a"
                               THEN [Name |-> n, Namespace |-> "prod", Labels |-> {"tier=backend"},
                                     OwnerReferences |-> owners, Containers |-> containers]
                               ELSE [Pod("web-1") EXCEPT !.Name = n]],
                  Running |-> run,
                  discovered |-> FALSE, targetPods |-> {}, TargetedPods |-> 0,
                  grouped |-> FALSE,
                  key |-> [n \in ListedPodNames |-> <<>>]]

\* discoverTargetPods, lines 808-812, and Reconcile, lines 648-652: the
\* listed pods are filtered and counted
FilterPods ==
    /\ ~calc.discovered
    /\ LET kept == {n \in ListedPodNames : shouldIncludePod(calc.pods[n], calc.Running)} IN
       calc' = [calc EXCEPT !.discovered = TRUE, !.targetPods = kept,
                            !.TargetedPods = Cardinality(kept)]
    /\ UNCHANGED <<spec, policy, running, workloads, now, pc, prs, loc, result, obs, hist, app, ev, eng>>

\* groupPodsByWorkload, lines 899-910: type and name of the workload of
\* every target pod
GroupPods ==
    /\ calc.discovered /\ ~calc.grouped
    /\ calc' = [calc EXCEPT
          !.grouped = TRUE,
          !.key = [n \in ListedPodNames |->
                      IF n \in calc.targetPods
                      THEN WorkloadKey(calc.pods[n].Namespace, getWorkloadType(calc.pods[n]),
                                       getWorkloadName(calc.pods[n]))
                      ELSE <<>>]]
    /\ UNCHANGED <<spec, policy, running, workloads, now, pc, prs, loc, result, obs, hist, app, ev, eng>>

ListedNext ==
    \/ FilterPods
    \/ GroupPods

ListedSpec == ListedInit /\ [][ListedNext]_vars

----------------------------------------------------------------------------
(* The apply step of a pass over several groups: the recommendations hold  *)
(* two pods of Deployment web with different templates, a pod of a         *)
(* workload type that has no update function, and a pod of StatefulSet db  *)

WebKey == WorkloadKey("prod", WorkloadTypeDeployment, "web")
DbKey == WorkloadKey("prod", WorkloadTypeStatefulSet, "db")

\* the workload types getWorkloadType knows and applyWorkloadRecommendations
\* has no case for
UnsupportedTypes == {"Job", "CronJob", "Pod"}

GroupsInit ==
    /\ spec \in {Policy(TargetProdNamespace, "2h", FALSE, strategy) :
                    strategy \in {UpdateStrategyImmediate, UpdateStrategyGradual}}
    /\ running = PodNames
    /\ now = 0
    /\ pc = "apply"
    /\ result = NoResult
    /\ hist = [passes |-> 0, prevStart |-> NoTime, prevErr |-> FALSE,
               completed |-> [pass |-> 0, recs |-> <<>>, targeted |-> 0, updated |-> 0]]
    /\ app = NoApplications
    /\ ev = NoEvent
    /\ eng = NoEngineCall
    /\ calc = NoCalculation
    /\ \E first \in Requirements, second \in {Original, Reduced},
          type \in UnsupportedTypes :
         LET recommendations ==
                 RecommendationsFor(WebKey, first)
                   \o RecommendationsFor(WorkloadKey("prod", type, "backup"), second)
                   \o RecommendationsFor(WebKey, second)
                   \o RecommendationsFor(DbKey, second)
             status == [EmptyStatus EXCEPT !.Phase = PhaseUpdating,
                                           !.Message = "Applying recommendations",
                                           !.LastAnalysisTime = 0, !.timeOf = 1,
                                           !.TargetedPods = Len(recommendations),
                                           !.Recommendations = recommendations, !.recsOf = 1]
         IN  /\ \E cs \in {<<Original>>, <<Original, first>>, <<second, Original>>, <<first, first>>} :
                   workloads = [InitialWorkloads EXCEPT ![WebKey] = cs]
             /\ policy = [exists |-> TRUE, Status |-> status]
             /\ prs = [stale |-> FALSE, Status |-> status]
             /\ loc = [NoLocals EXCEPT !.allRecommendations = recommendations,
                                       !.applyLeft = RecommendedWorkloads(recommendations)]
             /\ obs = [NewObs(0, EmptyStatus) EXCEPT
                          !.due = TRUE,
                          !.phases = <<PhaseAnalyzing, PhaseRecommending, PhaseUpdating>>]

GroupsNext ==
    \/ ApplyWorkload
    \/ RecordUpdates
    \/ WriteCompleted

GroupsSpec == GroupsInit /\ [][GroupsNext]_vars

----------------------------------------------------------------------------
(* Vocabulary of the properties *)

\* a pass has returned, and no other has begun: obs, loc and result are its
PassOver == pc = "idle" /\ hist.passes > 0

\* every status write the pass sent was accepted by the API server
WritesAccepted == obs.rejected = <<>>

Persisted == SeqToSet(obs.phases)

\* the pass did nothing to the world
NoOpPass ==
    /\ obs.phases = <<>> /\ obs.rejected = <<>>
    /\ obs.podLists = 0 /\ obs.metricsCalls = 0
    /\ obs.gets = {} /\ obs.writes = {}
    /\ policy.Status.LastAnalysisTime = obs.status0.LastAnalysisTime

IsPrefix(s, t) == Len(s) <= Len(t) /\ SubSeq(t, 1, Len(s)) = s

\* the phases of a full pass
FullPass ==
    IF spec.DryRun THEN <<PhaseAnalyzing, PhaseRecommending, PhaseCompleted>>
    ELSE <<PhaseAnalyzing, PhaseRecommending, PhaseUpdating, PhaseCompleted>>

\* the phases the pass persisted, a closing Error left out
BeforeError ==
    IF obs.phases # <<>> /\ obs.phases[Len(obs.phases)] = PhaseError
    THEN SubSeq(obs.phases, 1, Len(obs.phases) - 1)
    ELSE obs.phases

----------------------------------------------------------------------------
(* C1 - C10 *)

\* C1: for a dry-run policy, whatever the number of passes, no workload is
\* ever written (every workload keeps its initial container resources),
\* phase Updating is never persisted, status.UpdatedPods stays 0, and after
\* a pass that ran to its end and in which a pod yielded a recommendation
\* status.Recommendations is not empty.
C1_DryRunWritesNothing ==
    spec.DryRun =>
        /\ workloads = InitialWorkloads
        /\ obs.gets = {} /\ obs.writes = {}
        /\ policy.Status.Phase # PhaseUpdating
        /\ PhaseUpdating \notin Persisted
        /\ policy.Status.UpdatedPods = 0
        /\ (PassOver /\ ~result.err /\ loc.allRecommendations # <<>>)
              => policy.Status.Recommendations # <<>>

\* C1's case: a dry-run policy after its second pass, which was due, ran in
\* full and left recommendations
C1_Witness ==
    /\ spec.DryRun /\ PassOver /\ hist.passes = 2
    /\ obs.phases = FullPass
    /\ obs.status0.Recommendations # <<>>
    /\ policy.Status.Recommendations # <<>>

\* C2: for a manual, non-dry-run policy no workload is fetched or written,
\* status.UpdatedPods is 0 at all times, and a pass that got as far as the
\* apply step has computed the recommendations of every group and has
\* persisted them.
C2_ManualAppliesNothing ==
    (spec.Strategy = UpdateStrategyManual /\ ~spec.DryRun) =>
        /\ workloads = InitialWorkloads
        /\ obs.gets = {} /\ obs.writes = {}
        /\ policy.Status.UpdatedPods = 0
        /\ PhaseUpdating \in Persisted =>
              /\ obs.metricsCalls = Cardinality(DOMAIN groupPodsByWorkload(loc.targetPods))
              /\ policy.Status.Recommendations = loc.allRecommendations
              /\ policy.Status.recsOf = policy.Status.timeOf

\* C2's case: a manual policy whose pass ended Completed with recommendations
C2_Witness ==
    /\ spec.Strategy = UpdateStrategyManual /\ ~spec.DryRun
    /\ PassOver /\ obs.phases = FullPass
    /\ policy.Status.Recommendations # <<>>
    /\ loc.applyLeft = {}

\* C3: a pass in which the metrics call (or the engine) failed for one group
\* and succeeded for another is not aborted by it: every group was
\* processed, and, its status writes being accepted, the pass ends with phase
\* Completed, no error, and exactly the recommendations of the groups that
\* succeeded.
C3_GroupFailureIsolated ==
    (PassOver /\ obs.failedGroups # {} /\ obs.okGroups # {}) =>
        /\ obs.failedGroups \cup obs.okGroups = DOMAIN groupPodsByWorkload(loc.targetPods)
        /\ obs.failedGroups \cap obs.okGroups = {}
        /\ SeqToSet(loc.allRecommendations) = obs.produced
        /\ Len(loc.allRecommendations) = Cardinality(obs.produced)
        /\ \A i \in DOMAIN loc.allRecommendations :
              RecKey(loc.allRecommendations[i]) \in obs.okGroups
        /\ WritesAccepted =>
              /\ result = requeueAfter
              /\ policy.Status.Phase = PhaseCompleted
              /\ policy.Status.Recommendations = loc.allRecommendations

\* C3's case: one group failed, its sibling yielded a recommendation, the
\* pass is over and Completed
C3_Witness ==
    /\ PassOver /\ obs.failedGroups # {} /\ obs.okGroups # {}
    /\ policy.Status.Phase = PhaseCompleted
    /\ Len(policy.Status.Recommendations) = 1

C5_PhasesInOrder ==
    /\ IsPrefix(BeforeError, FullPass)
    /\ PhaseCompleted \in Persisted => PhaseRecommending \in Persisted

\* C5 as amended: the phases a pass persists are such a prefix, with
\* possibly Error after it, or they are Analyzing, Completed, which is what
\* a pass persists when discovery finds no target pod; Completed is written
\* without Recommending in that case only.
C5_PhasesInOrderOrNoPods ==
    \/ /\ IsPrefix(BeforeError, FullPass)
       /\ PhaseCompleted \in Persisted => PhaseRecommending \in Persisted
    \/ /\ obs.phases = <<PhaseAnalyzing, PhaseCompleted>>
       /\ loc.targetPods = {} /\ obs.podLists > 0

\* C5's case: a non-dry-run pass that persisted all four phases
C5_Witness ==
    /\ ~spec.DryRun /\ PassOver
    /\ obs.phases = <<PhaseAnalyzing, PhaseRecommending, PhaseUpdating, PhaseCompleted>>
    /\ obs.writes # {}

\* C6: whenever the persisted phase is Completed, the persisted
\* Recommendations, TargetedPods and UpdatedPods are the ones computed by
\* the pass that wrote Completed, and nothing of an earlier pass survives.
C6_CompletedStatusIsOfItsPass ==
    policy.Status.Phase = PhaseCompleted =>
        /\ policy.Status.Recommendations = hist.completed.recs
        /\ policy.Status.TargetedPods = hist.completed.targeted
        /\ policy.Status.UpdatedPods = hist.completed.updated
        /\ policy.Status.Recommendations # <<>> => policy.Status.recsOf = hist.completed.pass

\* C7: in every persisted status, Recommendations and LastAnalysisTime are
\* of the same pass.
C7_RecommendationsWithAnalysisTime ==
    /\ policy.Status.recsOf = policy.Status.timeOf
    /\ policy.Status.recsOf = 0 <=> policy.Status.LastAnalysisTime = NoTime
    /\ policy.Status.recsOf = 0 => policy.Status.Recommendations = <<>>

\* C7's case: the second analysis of a policy is persisted, in place of the first
C7_Witness ==
    /\ policy.Status.recsOf = 2 /\ policy.Status.timeOf = 2
    /\ policy.Status.Recommendations # <<>>
    /\ obs.status0.recsOf = 1

\* C8: a status write that was rejected because the object had changed is
\* sent again by the pass, so that by the end of the pass its phase has been
\* persisted; no status write is dropped.
C8_RejectedWriteIsRetried ==
    PassOver => \A i \in DOMAIN obs.rejected : obs.rejected[i] \in Persisted

\* C9: a pass whose target discovery fails (a malformed label or namespace
\* selector, a failed list call) sends the write of phase Error with its
\* message, which shows in the status once accepted; it makes no metrics
\* call and no workload read or write, leaves Recommendations and
\* LastAnalysisTime as they were, and returns the error with a requeue
\* after five minutes.
C9_DiscoveryFailure ==
    (/\ PassOver /\ PhaseAnalyzing \in Persisted
     /\ \/ spec.Target.LabelSelector = "bad"
        \/ spec.Target.NamespaceSelector = "bad"
        \/ obs.discoveryFailed) =>
        /\ result = [RequeueAfter |-> FiveMinutes, err |-> TRUE]
        /\ obs.metricsCalls = 0 /\ obs.gets = {} /\ obs.writes = {}
        /\ \/ obs.phases = <<PhaseAnalyzing, PhaseError>> /\ obs.rejected = <<>>
           \/ obs.phases = <<PhaseAnalyzing>> /\ obs.rejected = <<PhaseError>>
        /\ PhaseError \in Persisted =>
              /\ policy.Status.Phase = PhaseError
              /\ policy.Status.Message = "Failed to discover pods"
        /\ policy.Status.Recommendations = obs.status0.Recommendations
        /\ policy.Status.LastAnalysisTime = obs.status0.LastAnalysisTime
        /\ policy.Status.recsOf = obs.status0.recsOf

\* C9's case: a pod list call failed in the pass after the first analysis,
\* whose recommendations are still there under phase Error
C9_Witness ==
    /\ PassOver /\ obs.discoveryFailed /\ spec.Target.LabelSelector # "bad"
    /\ policy.Status.Phase = PhaseError
    /\ policy.Status.Recommendations # <<>>

\* C10: a pass in whose apply step the fetch or the update of a workload
\* failed sets phase Error and returns the error with a requeue after five
\* minutes; it never ends with phase Completed.
C10_ApplyFailureIsError ==
    (PassOver /\ obs.applyFailed # {}) =>
        /\ result = [RequeueAfter |-> FiveMinutes, err |-> TRUE]
        /\ PhaseCompleted \notin Persisted
        /\ WritesAccepted => policy.Status.Phase = PhaseError

----------------------------------------------------------------------------
(* C11 - C20 *)

\* the outcome of the pass that follows one that left phase Error: the policy
\* is gone, or the pass was due and ran, and it ended with phase Completed
\* unless its own discovery failed or one of its status writes was refused
RetriedAfterError ==
    \/ ~obs.found
    \/ /\ obs.due
       /\ \/ obs.discoveryFailed
          \/ ~WritesAccepted
          \/ policy.Status.Phase = PhaseCompleted /\ ~result.err

\* C11: phase Error is not absorbing.  Whenever a pass (the n-th) has ended
\* and the persisted phase is Error, the next pass is eventually run to its
\* end; it is not skipped as not due, and with its discovery succeeding and
\* its status writes accepted it ends with phase Completed.
C11_ErrorIsRetried ==
    \A n \in 1..(MaxPasses - 1) :
        (PassOver /\ hist.passes = n /\ policy.Status.Phase = PhaseError)
            ~> (PassOver /\ hist.passes = n + 1 /\ RetriedAfterError)

\* C11's case: the pass after one that ended in Error ran in full and ended
\* with phase Completed
C11_Witness ==
    /\ PassOver /\ hist.passes = 2
    /\ obs.status0.Phase = PhaseError /\ obs.due
    /\ policy.Status.Phase = PhaseCompleted
    /\ PhaseRecommending \in Persisted

\* C12: a pass that does not find the policy object is a no-op: no status
\* write, no pod list, no metrics call, no workload read or write, and it
\* returns no error and no requeue.
C12_DeletedPolicyIsNoOp ==
    (PassOver /\ ~obs.found) =>
        /\ NoOpPass
        /\ obs.phases = <<>> /\ obs.rejected = <<>>
        /\ result = [RequeueAfter |-> 0, err |-> FALSE]
        /\ ~policy.exists

\* C12's case: the policy was analysed, then deleted, and a pass ran for its key
C12_Witness ==
    /\ PassOver /\ ~obs.found /\ hist.passes = 2
    /\ obs.status0.Phase = PhaseCompleted
    /\ obs.status0.Recommendations # <<>>

\* some container of the pod template asks for something else than the template
Differs(containers, template) == \E i \in DOMAIN containers : containers[i] # template

\* the application sent an Update to the API server, accepted or not
Issued(a) == a.got /\ (a.wrote \/ a.err)

\* C13: under a strategy other than manual, an application that fetched the
\* workload (a Deployment, a StatefulSet or a DaemonSet) sends an Update if
\* and only if a container's requests or limits differ from the template;
\* an accepted Update leaves every container with the template and counts
\* 1, anything else leaves the workload as it was and counts 0.  So, right
\* after an application that returned no error, applying the same template
\* again sends nothing, counts 0 and leaves the workload unchanged, and in
\* any run of applications at most one Update is accepted.
C13_UpdateIffDiffers ==
    spec.Strategy # UpdateStrategyManual =>
        /\ \A i \in DOMAIN app.applied :
              LET a == app.applied[i] IN
              /\ a.got => (Issued(a) <=> Differs(a.before, app.template))
              /\ ~a.got => a.err /\ ~a.wrote
              /\ a.n = IF a.wrote THEN 1 ELSE 0
              /\ a.wrote => a.after = [j \in DOMAIN a.before |-> app.template]
              /\ ~a.wrote => a.after = a.before
              /\ (i > 1 /\ ~app.applied[i - 1].err) =>
                    ~Issued(a) /\ a.n = 0 /\ a.after = a.before
        /\ Cardinality({i \in DOMAIN app.applied : app.applied[i].wrote}) <= 1

\* C13's case: a StatefulSet of two containers, of which one already had the
\* template, was updated by the first application and fetched, found equal
\* and left alone by the second
C13_Witness ==
    /\ spec.Strategy # UpdateStrategyManual
    /\ Len(app.applied) = 2
    /\ app.key[3] = WorkloadTypeStatefulSet
    /\ Len(app.applied[1].before) = 2
    /\ app.applied[1].before[1] = app.template
    /\ app.applied[1].wrote
    /\ app.applied[2].got /\ ~app.applied[2].err /\ ~app.applied[2].wrote

\* C14: in each of the three targeting modes, no pod of a namespace listed
\* in ExcludeNamespaces is among the discovered target pods, none is named
\* by a recommendation, computed or persisted, and no workload of such a
\* namespace is fetched or written.
C14_ExcludedNamespacesAreSkipped ==
    LET excluded == spec.Target.ExcludeNamespaces IN
    /\ \A p \in loc.targetPods : Pod(p).Namespace \notin excluded
    /\ \A i \in DOMAIN loc.allRecommendations :
          loc.allRecommendations[i].PodReference.Namespace \notin excluded
    /\ \A i \in DOMAIN policy.Status.Recommendations :
          policy.Status.Recommendations[i].PodReference.Namespace \notin excluded
    /\ \A k \in obs.gets \cup obs.writes : k[1] \notin excluded

\* what applying template to a workload with containers before comes to,
\* whatever the policy: the Get, the Update if a container differs, the count
Applied(before, template, getFails, updateFails) ==
    LET same == [n |-> 0, err |-> FALSE, got |-> TRUE, wrote |-> FALSE,
                 getFails |-> getFails, updateFails |-> updateFails,
                 before |-> before, after |-> before]
    IN  IF getFails THEN [same EXCEPT !.err = TRUE, !.got = FALSE]
        ELSE IF \A i \in DOMAIN before : before[i] = template THEN same
        ELSE IF updateFails THEN [same EXCEPT !.err = TRUE]
        ELSE [same EXCEPT !.n = 1, !.wrote = TRUE,
                          !.after = [i \in DOMAIN before |-> template]]

ChangePercent(current, recommended) ==
    IF current = 0 THEN 100
    ELSE ((IF recommended >= current THEN recommended - current
                                     ELSE current - recommended) * 100) \div current

\* the template asks, for some resource of the container, for a quantity
\* that differs by threshold percent or more (a resource that one of the two
\* does not name counts as such a change)
ChangesAtLeast(container, template, threshold) ==
    \E list \in {"Requests", "Limits"} :
        \/ DOMAIN container[list] # DOMAIN template[list]
        \/ \E r \in DOMAIN container[list] :
              ChangePercent(container[list][r], template[list][r]) >= threshold

\* C16: a workload is written only when the template differs from the
\* resources of one of its containers by at least MinChangeThreshold percent.
C16_SmallChangeWritesNothing ==
    \A i \in DOMAIN app.applied :
        app.applied[i].wrote =>
            \E j \in DOMAIN app.applied[i].before :
                ChangesAtLeast(app.applied[i].before[j], app.template, spec.MinChangeThreshold)

\* the object (labels being those of the pod, or of the pod template of a
\* workload) is within the policy's target: its namespace is the target's
\* (if it names one) and is not excluded, the label selector and the
\* namespace selector (if set) are well formed and match, and the workload
\* type is one of those included (if any is listed)
InTarget(namespace, labels, workloadType) ==
    LET t == spec.Target IN
    /\ namespace \in (IF t.Namespace = "" THEN Namespaces ELSE {t.Namespace})
                        \ t.ExcludeNamespaces
    /\ t.LabelSelector \in {"nil"} \cup labels
    /\ t.NamespaceSelector \in {"nil"} \cup NamespaceLabels[namespace]
    /\ t.IncludeWorkloadTypes = {} \/ workloadType \in t.IncludeWorkloadTypes

\* the pod of the event, and whether the event changed a container's resources
EventPodObject == EventPod(ev.event.name)

EventPodInTarget ==
    InTarget(EventPodObject.Namespace, EventPodObject.Labels, getWorkloadType(EventPodObject))

ResourcesChanged ==
    ev.event.type = "Update" /\ \E i \in DOMAIN ev.event.old : ev.event.old[i] # ev.event.new[i]

\* an event of a pod that does not name the policy as its owner has been handled
PodEventHandled ==
    ev.delivered /\ ev.event.kind = "Pod" /\ OwnersOf(EventPodObject) = {}

\* C17 as stated: a pod event queues the policy only if the pod is within
\* the policy's target and the event changed a container's resources;
\* creations, deletions and updates without such a change queue nothing.
C17_OnlyResourceChangesEnqueue ==
    PodEventHandled =>
        /\ ev.enqueued # {} => EventPodInTarget /\ ResourcesChanged
        /\ ~ResourcesChanged => ev.enqueued = {}

\* C17 as amended: a pod event queues the policy only if the pod is within
\* the policy's target and the event is the creation of the pod or an update
\* that changed a container's resources (and then it does, when the list of
\* the policies and the Get of the namespace succeed); deletions and updates
\* without such a change queue nothing.
C17_CreationsAndResourceChangesEnqueue ==
    PodEventHandled =>
        /\ ev.enqueued # {} =>
              /\ ev.enqueued = {PolicyKey}
              /\ EventPodInTarget
              /\ ev.event.type = "Create" \/ ResourcesChanged
        /\ (ev.event.type # "Create" /\ ~ResourcesChanged) => ev.enqueued = {}
        /\ (/\ EventPodInTarget
            /\ ev.event.type = "Create" \/ ResourcesChanged
            /\ ~ev.listFails /\ ~ev.nsGetFails) => ev.enqueued = {PolicyKey}

\* C17's case: the creation of a pod within the target has queued the policy
C17_Witness ==
    /\ PodEventHandled /\ ev.event.type = "Create"
    /\ ev.event.name = "db-0" /\ spec.Target.NamespaceSelector = "team=a"
    /\ ev.enqueued = {PolicyKey}

\* C18: an update of a Deployment, a StatefulSet or a DaemonSet within the
\* policy's target that changed the resources of a container of its pod
\* template queues the policy (the list of the policies and the Get of the
\* namespace succeeding).
C18_WorkloadDriftEnqueues ==
    (/\ ev.delivered
     /\ ev.event.kind \in {WorkloadTypeDeployment, WorkloadTypeStatefulSet, WorkloadTypeDaemonSet}
     /\ ResourcesChanged
     /\ InTarget(ev.event.key[1], WorkloadObject(ev.event.key).TemplateLabels, ev.event.kind)
     /\ ~ev.listFails /\ ~ev.nsGetFails) =>
        PolicyKey \in ev.enqueued

\* the recommendations the call returned for the pod at place i
EmittedFor(i) ==
    {j \in DOMAIN eng.recommendations : eng.recommendations[j].PodName = i}

\* C19: every recommendation GenerateRecommendations emits has as its
\* Confidence the smaller of the confidences of the CPU and of the memory
\* analysis of its pod, and it is 70 or more; a pod for which the smaller
\* of the two is below 70 gets no recommendation and no error.
C19_ConfidenceIsMinAndAtLeast70 ==
    /\ \A j \in DOMAIN eng.recommendations :
          LET r == eng.recommendations[j]
              pod == eng.pods[r.PodName]
          IN  /\ r.present
              /\ r.Confidence = Min(calculateConfidence(pod.CPUUsageHistory),
                                    calculateConfidence(pod.MemUsageHistory))
              /\ r.Confidence = Min(eng.analyses[r.PodName].cpu.confidence,
                                    eng.analyses[r.PodName].memory.confidence)
              /\ r.Confidence >= 70
    /\ \A i \in DOMAIN eng.analyses :
          LET a == eng.analyses[i] IN
          (~a.cpu.err /\ ~a.memory.err /\ Min(a.cpu.confidence, a.memory.confidence) < 70) =>
              /\ ~a.err
              /\ ~a.recommendation.present
              /\ EmittedFor(i) = {}

\* C19's case: of two pods with enough samples, the one whose memory is less
\* steady than its CPU got a recommendation with the memory's confidence,
\* the one whose CPU varies too much got none
C19_Witness ==
    /\ eng.returned /\ ~eng.err /\ Len(eng.pods) = 2
    /\ Len(eng.recommendations) = 1
    /\ eng.recommendations[1].PodName = 2
    /\ eng.recommendations[1].Confidence = 90
    /\ eng.analyses[2].cpu.confidence = 100
    /\ eng.analyses[1].cpu.confidence < 70 /\ eng.analyses[1].memory.confidence = 100

\* the pod at place i has a history of fewer than 10 samples
ShortOfSamples(i) ==
    eng.pods[i].CPUUsageHistory.n < 10 \/ eng.pods[i].MemUsageHistory.n < 10

\* C20: the analysis of a history of fewer than 10 samples returns an error,
\* a nil recommendation and confidence 0; a pod with such a history, CPU or
\* memory, gets no recommendation; the call goes on to the other pods, each
\* of which gets what it would get alone, and returns no error.
C20_InsufficientDataSkipsThePod ==
    /\ \A h \in Histories :
          h.n < 10 =>
              /\ analyzeCPUUsage(h) =
                    [recommendation |-> NilRecommendation, confidence |-> 0, err |-> TRUE]
              /\ analyzeMemoryUsage(h) =
                    [recommendation |-> NilRecommendation, confidence |-> 0, err |-> TRUE]
    /\ \A i \in DOMAIN eng.analyses :
          ShortOfSamples(i) =>
              /\ eng.analyses[i].err
              /\ eng.analyses[i].cpu.err \/ eng.analyses[i].memory.err
              /\ EmittedFor(i) = {}
    /\ (eng.returned /\ Len(eng.pods) > 0) =>
          /\ ~eng.err
          /\ Len(eng.analyses) = Len(eng.pods)
          /\ \A i \in DOMAIN eng.pods :
                (/\ ~ShortOfSamples(i)
                 /\ calculateConfidence(eng.pods[i].CPUUsageHistory) >= 70
                 /\ calculateConfidence(eng.pods[i].MemUsageHistory) >= 70) =>
                    Cardinality(EmittedFor(i)) = 1

\* C20's case: the first pod has 9 memory samples, the second pod, analysed
\* after it, got its recommendation, and the call returned no error
C20_Witness ==
    /\ eng.returned /\ ~eng.err /\ Len(eng.pods) = 2
    /\ eng.pods[1].CPUUsageHistory.n = 100 /\ eng.pods[1].MemUsageHistory.n = 9
    /\ eng.analyses[1].err /\ eng.analyses[1].memory.err /\ ~eng.analyses[1].cpu.err
    /\ Len(eng.recommendations) = 1 /\ eng.recommendations[1].PodName = 2

\* the values of the sample of the calculation
SampleValues == {calc.sample[i] : i \in DOMAIN calc.sample}

NearConstant ==
    /\ calc.sample # <<>>
    /\ \A v \in SampleValues, w \in SampleValues : 10 * (w - v) <= v

\* the coefficient of variation of the sample exceeds 0.5: the sample
\* variance exceeds a quarter of the square of the mean
VariesWidely ==
    LET n == Len(calc.sample)
        sum == SumOfValues(calc.sample)
    IN  /\ n >= 2 /\ sum > 0
        /\ 4 * SumSquaredDiffOf(calc.sample, n, sum) > (n - 1) * sum * sum

\* C26 as stated: calculateConfidence returns an integer from 0 to 100 for
\* every sample, above 70 for a near-constant sample, below 70 for a sample
\* whose coefficient of variation exceeds 0.5.
C26_ConfidenceOfASample ==
    calc.confidence # NotCalculated =>
        /\ calc.confidence \in 0..100
        /\ NearConstant => calc.confidence > 70
        /\ VariesWidely => calc.confidence < 70

\* C26 as amended: the same, the near-constant sample having two or more
\* values; a sample of fewer than two values gets 50.
C26_ConfidenceOfASampleOfTwoOrMore ==
    calc.confidence # NotCalculated =>
        /\ calc.confidence \in 0..100
        /\ (NearConstant /\ Len(calc.sample) >= 2) => calc.confidence > 70
        /\ Len(calc.sample) < 2 => calc.confidence = 50
        /\ VariesWidely => calc.confidence < 70

\* C26's case: the test's consistent values, ten of them
C26_Witness ==
    /\ calc.sample = ConsistentValues /\ NearConstant
    /\ calc.confidence = 100

\* the engine returned a recommendation for the pod
Emitted == calc.returned /\ calc.recommendation.present

\* C21: in every recommendation the engine emits, the CPU request is at
\* most the CPU limit and the memory request at most the memory limit, as
\* quantities of millicores and bytes.
C21_RequestAtMostLimit ==
    Emitted =>
        /\ calc.Requests.cpu <= calc.Limits.cpu
        /\ calc.Requests.memory <= calc.Limits.memory

\* C21's case: a recommendation whose requests are cut to whole units
C21_Witness ==
    /\ Emitted
    /\ calc.Limits.cpu = 7 /\ calc.Requests.cpu = 5
    /\ calc.Limits.memory = 6 /\ calc.Requests.memory = 5

\* the limit of an analysis agrees with the claim's rule for the margin m (in
\* percent), the minimum and the maximum: the percentile (in hundredths)
\* times (1 + m/100) is compared with the constraints that are set
LimitAsClaimed(analysis, m, minimum, maximum) ==
    LET inflated == analysis.Percentile * (100 + m) IN
    /\ (minimum # 0 /\ inflated < 10000 * minimum) => analysis.Limit = minimum
    /\ (maximum # 0 /\ inflated > 10000 * maximum) => analysis.Limit = maximum
    /\ (~(minimum # 0 /\ inflated < 10000 * minimum)
          /\ ~(maximum # 0 /\ inflated > 10000 * maximum)) =>
            /\ 10000 * analysis.Limit <= inflated
            /\ inflated < 10000 * (analysis.Limit + 1)
    /\ minimum # 0 => analysis.Limit >= minimum
    /\ maximum # 0 => analysis.Limit <= maximum

\* the safety margin in force
MarginInForce ==
    IF calc.thresholds.SafetyMargin > 0 THEN calc.thresholds.SafetyMargin ELSE 20

C23_RequestAtLeastMinimum ==
    Emitted =>
        /\ calc.thresholds.MinCPU # 0 => calc.Requests.cpu >= calc.thresholds.MinCPU
        /\ calc.thresholds.MinMemory # 0 => calc.Requests.memory >= calc.thresholds.MinMemory

\* what one call alone returns for a history
AloneOn(history) ==
    LET limit == recommendedLimit(history, 0, 0, 0, 0) IN
    [Percentile |-> limit.Percentile, Limit |-> limit.Limit,
     confidence |-> calculateConfidence(HistoryOf(SortedValues(history)))]

----------------------------------------------------------------------------
(* C28 - C30 *)

\* nothing outside the controller has changed what the pass reads: no pod
\* has stopped, or the pass before this one found no running pod of the
\* target (a pod that has stopped does not start again)
ClusterAsBefore ==
    \/ running = PodNames
    \/ running = {} /\ obs.status0.Message = "No matching pods found"

\* the pass sent no status write, asked for no metrics and wrote no workload
WroteNothing ==
    /\ obs.phases = <<>> /\ obs.rejected = <<>>
    /\ obs.metricsCalls = 0
    /\ obs.writes = {}

\* C28: the controller does not drive itself in a loop.  Every status write
\* enqueues a new pass, so a pass that writes and leaves the policy as it
\* found it is followed by a pass that does the same, without end: with the
\* clock at a standstill, no pod stopping during the pass and no edit of the
\* policy by anyone else, a pass that leaves the persisted status as it
\* found it has sent no status write, asked for no metrics and written no
\* workload (a policy that matches no pod or whose discovery fails included).
C28_NoSelfDrivenLoop ==
    (/\ PassOver /\ policy.exists
     /\ now = 0 /\ ClusterAsBefore
     /\ WritesAccepted /\ ~prs.stale
     /\ policy.Status = obs.status0) => WroteNothing

\* C29: every workload write of a pass comes after an accepted status write
\* of that pass with phase Updating, which carried the recommendations and
\* the analysis time of that pass (they are what the policy holds while the
\* workloads are written), and a pass whose Updating write was rejected
\* writes no workload.
C29_UpdatingBeforeWorkloadWrites ==
    /\ obs.writes # {} => PhaseUpdating \in Persisted
    /\ PhaseUpdating \in SeqToSet(obs.rejected) => obs.writes = {}
    /\ pc = "apply" =>
          /\ policy.Status.Phase = PhaseUpdating
          /\ policy.Status.Recommendations = loc.allRecommendations
          /\ policy.Status.recsOf = hist.passes + 1
          /\ policy.Status.LastAnalysisTime \in obs.start..now
          /\ policy.Status.timeOf = hist.passes + 1

\* C29's case: the second pass of a policy is writing workloads, one is
\* written and one is still to come, and the policy holds phase Updating
\* with the recommendations that second pass computed
C29_Witness ==
    /\ pc = "apply" /\ hist.passes = 1
    /\ obs.writes # {} /\ loc.applyLeft # {}
    /\ obs.phases = <<PhaseAnalyzing, PhaseRecommending, PhaseUpdating>>
    /\ policy.Status.recsOf = 2
    /\ policy.Status.Recommendations # <<>>

\* C30: while no pass is in progress the persisted phase of the policy is
\* the empty one, Initializing, Completed or Error, whether or not a status
\* write of the last pass was rejected.
C30_IdlePhaseIsFinal ==
    (pc = "idle" /\ policy.exists) =>
        policy.Status.Phase \in {"", PhaseInitializing, PhaseCompleted, PhaseError}

----------------------------------------------------------------------------
(* C31 - C40 *)

\* every container of the Deployment carries template
Carries(template) == \A i \in DOMAIN app.containers : app.containers[i] = template

Window == ParseDuration(spec.AnalysisWindow)

\* shouldRunAnalysis has answered as the claim says: due if and only if
\* LastAnalysisTime is unset or the time since then is at least the interval
DueAsClaimed ==
    calc.asked # NoTime =>
        (calc.due <=> \/ policy.Status.LastAnalysisTime = NoTime
                      \/ calc.asked - policy.Status.LastAnalysisTime >= analysisInterval)

\* an empty or unparseable window has the interval of 24 hours
FallsBackToADay == (spec.AnalysisWindow = "" \/ ~Window.ok) => analysisInterval = 24 * Hour

\* C32: analysis is due if and only if LastAnalysisTime is unset or the time
\* since it is at least the interval of the policy; the interval of every
\* parseable window is strictly shorter than the window; the interval of an
\* empty or unparseable window is 24 hours.
C32_DueByInterval ==
    /\ DueAsClaimed
    /\ Window.ok => analysisInterval < Window.d
    /\ FallsBackToADay

\* C32 as amended: the interval is strictly shorter than the window for
\* every parseable window of more than an hour, and is one hour for a
\* parseable window of an hour or less.
C32_DueByIntervalOfLongerWindows ==
    /\ DueAsClaimed
    /\ (Window.ok /\ Window.d > Hour) => analysisInterval < Window.d
    /\ (Window.ok /\ Window.d <= Hour) => analysisInterval = Hour
    /\ FallsBackToADay

\* C32's case: a policy with a window of one hour, analysed at 0 and asked
\* an hour later, is due: its interval is its window
C32_Witness ==
    /\ spec.AnalysisWindow = "1h"
    /\ policy.Status.LastAnalysisTime = 0
    /\ calc.asked = Hour /\ calc.due
    /\ analysisInterval = Window.d

\* C33: a pass of an existing policy that ends without error returns a
\* requeue delay of one hour if the analysis window is shorter than 24 hours
\* and of 24 hours in every other case, an empty or unparseable window
\* included.
C33_RequeueDelay ==
    (PassOver /\ obs.found /\ ~result.err) =>
        result.RequeueAfter = IF Window.ok /\ Window.d < 24 * Hour THEN Hour ELSE 24 * Hour

\* the analysis time and the recommendations are those the pass found
AnalysisAsFound ==
    /\ policy.Status.LastAnalysisTime = obs.status0.LastAnalysisTime
    /\ policy.Status.timeOf = obs.status0.timeOf
    /\ policy.Status.Recommendations = obs.status0.Recommendations
    /\ policy.Status.recsOf = obs.status0.recsOf

\* C34: the persisted LastAnalysisTime is changed only by a pass that found
\* at least one target pod and went through the recommendation step; a pass
\* that was not due, that found no matching pod, whose discovery failed or
\* whose policy was gone leaves LastAnalysisTime and Recommendations as it
\* found them.
C34_AnalysisTimeOnlyAfterRecommending ==
    /\ ~AnalysisAsFound =>
          /\ loc.targetPods # {}
          /\ PhaseRecommending \in Persisted
          /\ loc.groups = {}
    /\ (\/ ~obs.found \/ ~obs.due \/ obs.discoveryFailed
        \/ pc \in {"noPods", "discoverFailed"}
        \/ PassOver /\ loc.targetPods = {}) => AnalysisAsFound

\* C34's case: the second pass of a policy that holds recommendations and
\* an analysis time of its first pass is due an hour later, finds no pod
\* running and writes Completed: the policy holds what the first pass left
C34_Witness ==
    /\ PassOver /\ hist.passes = 2
    /\ obs.status0.LastAnalysisTime = 0 /\ obs.status0.Recommendations # <<>>
    /\ obs.start = Hour
    /\ loc.targetPods = {} /\ ~obs.discoveryFailed
    /\ obs.phases = <<PhaseAnalyzing, PhaseCompleted>>
    /\ policy.Status.TargetedPods = 0
    /\ policy.Status.LastAnalysisTime = 0 /\ policy.Status.recsOf = 1

\* the pod has a container with an entry among its requests or its limits
DeclaresResources(pod) ==
    \E i \in DOMAIN pod.Containers :
        DOMAIN pod.Containers[i].Requests # {} \/ DOMAIN pod.Containers[i].Limits # {}

\* the workload type the owner references of the pod resolve to
ResolvedType(pod) ==
    LET known == {i \in DOMAIN pod.OwnerReferences :
                     pod.OwnerReferences[i].Kind \in
                        {"ReplicaSet", "StatefulSet", "DaemonSet", "Job", "CronJob"}}
    IN  IF known = {} THEN "Pod"
        ELSE LET first == pod.OwnerReferences[CHOOSE i \in known : \A j \in known : i <= j]
             IN  IF first.Kind = "ReplicaSet" THEN WorkloadTypeDeployment ELSE first.Kind

OwnersOfTarget(n) == calc.pods[n].OwnerReferences
TypeOf(n) == calc.key[n][3]
NameOf(n) == calc.key[n][5]

\* type and name of target pod n are those of one object: an owner of the
\* pod, the Deployment that owns the ReplicaSet that owns the pod, or the
\* pod itself
SameObject(n) ==
    \/ \E i \in DOMAIN OwnersOfTarget(n) :
          /\ OwnersOfTarget(n)[i].Kind # "ReplicaSet"
          /\ TypeOf(n) = OwnersOfTarget(n)[i].Kind /\ NameOf(n) = OwnersOfTarget(n)[i].Name
    \/ \E i \in DOMAIN OwnersOfTarget(n) :
          /\ OwnersOfTarget(n)[i].Kind = "ReplicaSet"
          /\ \E d \in SeqToSet(ReplicaSetOwners(calc.pods[n].Namespace, OwnersOfTarget(n)[i].Name)) :
                d.Kind = "Deployment" /\ TypeOf(n) = WorkloadTypeDeployment /\ NameOf(n) = d.Name
    \/ TypeOf(n) = "Pod" /\ NameOf(n) = calc.pods[n].Name

\* C39: the workload of a pod is found in at most two hops: a pod owned by
\* a ReplicaSet that a Deployment owns resolves to type Deployment and the
\* name of the Deployment, a pod owned by a StatefulSet, DaemonSet or Job to
\* the kind and the name of that owner, and type and name are always those
\* of one and the same object.
C39_TypeAndNameOfOneObject ==
    calc.grouped =>
        \A n \in calc.targetPods :
            /\ LET first == OwnersOfTarget(n)[1] IN
               /\ (first.Kind = "ReplicaSet"
                     /\ ReplicaSetOwners(calc.pods[n].Namespace, first.Name) # <<>>) =>
                     /\ TypeOf(n) = WorkloadTypeDeployment
                     /\ NameOf(n) = ReplicaSetOwners(calc.pods[n].Namespace, first.Name)[1].Name
               /\ first.Kind \in {"StatefulSet", "DaemonSet", "Job"} =>
                     TypeOf(n) = first.Kind /\ NameOf(n) = first.Name
            /\ SameObject(n)

\* the template of group web: what the first of its recommendations, the
\* first of all, recommends
WebTemplate == loc.allRecommendations[1].RecommendedResources

\* C35: once the controller has updated a workload, every container of its
\* pod template, however many there are, has as requests and limits those
\* of the template, which is what the first recommendation of the group
\* recommends, and nothing else.
C35_EveryContainerIsTheTemplate ==
    /\ WebKey \in obs.writes =>
          /\ Len(workloads[WebKey]) \in {1, 2}
          /\ \A i \in DOMAIN workloads[WebKey] : workloads[WebKey][i] = WebTemplate
    /\ DbKey \in obs.writes =>
          \A i \in DOMAIN workloads[DbKey] :
              workloads[DbKey][i] = loc.allRecommendations[4].RecommendedResources

\* C35's case: Deployment web had two containers with requests and limits
\* of cpu and memory; its first recommendation has a cpu request and
\* nothing else, its second one differs; the controller updated it
C35_Witness ==
    /\ WebKey \in obs.writes
    /\ Len(workloads[WebKey]) = 2
    /\ WebTemplate = [Requests |-> ResourceList({"cpu"}, 20), Limits |-> ResourceList({}, 0)]
    /\ loc.allRecommendations[3].RecommendedResources = Original
    /\ RecKey(loc.allRecommendations[3]) = WebKey

\* the groups of the pass whose workload type has no update function
UnsupportedGroups ==
    {k \in RecommendedWorkloads(loc.allRecommendations) : k[3] \in UnsupportedTypes}

\* C40: a group of a workload type other than Deployment, StatefulSet and
\* DaemonSet is skipped, with no update counted and no error: no object is
\* read or written for it, and when the loop is over every other group has
\* been applied (its workload was read, or the call for it failed) and the
\* count is that of the workloads written.
C40_UnsupportedTypeIsSkipped ==
    /\ \A k \in UnsupportedGroups :
          k \notin obs.gets /\ k \notin obs.writes /\ k \notin obs.applyFailed
    /\ loc.updatedCount = Cardinality(obs.writes)
    /\ loc.applyLeft = {} =>
          \A k \in RecommendedWorkloads(loc.allRecommendations) \ UnsupportedGroups :
              k \in obs.gets \/ k \in obs.applyFailed

\* C40's case: the pass is over; the group of a Job was skipped, and the
\* groups of web and db, both of which the loop came to after it, were
\* written
C40_Witness ==
    /\ PassOver /\ ~result.err
    /\ UnsupportedGroups = {WorkloadKey("prod", "Job", "backup")}
    /\ obs.writes = {WebKey, DbKey}
    /\ obs.applyFailed = {}
    /\ policy.Status.Phase = PhaseCompleted /\ policy.Status.UpdatedPods = 2

====
